---- MODULE Spec2Model ----
(***************************************************************************)
(* A2A runtime of feuyeux/hello-a2a: the remote agent executors, the 0.1   *)
(* AgentTaskManager and the web UI host manager, as state machines.        *)
(*                                                                         *)
(* Sixteen specifications share the module:                                   *)
(*   SpecExec  one execute() call of a remote AgentExecutor (AG2, Semantic *)
(*             Kernel, Google ADK, LangGraph) and cancel() calls on it;    *)
(*   SpecTM    the 0.1 AgentTaskManager handling tasks/send and            *)
(*             tasks/sendSubscribe over the in-memory task store;          *)
(*   SpecHost  the ADKHostManager applying remote task events and          *)
(*             sanitising user messages of a conversation;                 *)
(*   SpecEv    the event streams from the remote agents to the host and    *)
(*             the host's event list;                                      *)
(*   SpecSel   the 0.2 server choosing between the currency and the        *)
(*             element executor;                                           *)
(*   SpecCache the 0.2 server's QueryCache under the keyword scorer, the   *)
(*             LLM analysis and the admin lookups;                         *)
(*   SpecReg   the hosts registering the remote agents at startup;         *)
(*   SpecCb    ADKHostManager.task_callback called from the threads of     *)
(*             several messages at once;                                   *)
(*   SpecArt   the artifact events of the remote agents and the parts      *)
(*             they carry;                                                 *)
(*   SpecPm    the pending message ids of ADKHostManager.process_message;  *)
(*   SpecConc  concurrent SmartRequestHandler.execute calls of the 0.2     *)
(*             server;                                                     *)
(*   SpecSend  the send_message tool calls of one host run;                *)
(*   SpecErr   a streaming exchange that ends with an error response, and  *)
(*             SpecErrLive, the same with the host's steps taken fairly;   *)
(*   SpecCli   the prompt loop of the A2A command-line client;             *)
(*   SpecProc  the remote-agent subprocesses of the host CLI;              *)
(*   SpecChat  the saved contexts of the file-chat executor.               *)
(***************************************************************************)
EXTENDS Integers, Sequences, FiniteSets, TLC

VARIABLES
    \* ---- remote executor (SpecExec)
    exKind,      \* which AgentExecutor runs: "ag2", "sk", "adk", "lg"
    exPc,        \* position of execute(): "start", "loop", "done", "raised"
    exCurTask,   \* context.current_task: "none" or the state of the existing task
    exHasMsg,    \* context.message is present
    exItems,     \* items agent.stream() has still to yield
    exRaises,    \* agent.stream() raises once exItems is exhausted
    exQueue,     \* events enqueued on the EventQueue, in order
    exCancel,    \* outcome of the last cancel() call: "none", "exception", "unsupported"
    \* ---- 0.1 AgentTaskManager (SpecTM)
    tmStore,     \* the task store: task id -> [state, hist, arts]
    tmSubs,      \* SSE subscribers in creation order, each with its queue and its run
    tmResp,      \* the last request: its method, task id, message and outcome
    tmReqs,      \* number of requests handled so far
    tmPush,      \* push-notification config stored per task: "none" or "url"
    \* ---- web host: ADKHostManager (SpecHost)
    hTasks,      \* _tasks: the task list, each [id, state, arts, hist]
    hChunks,     \* _artifact_chunks: artifact id -> temporary artifacts being assembled
    hTaskMap,    \* _task_map: message id -> task id
    hConv,       \* the conversation's messages, each [role, task]
    hTurns,      \* process_message threads, each [task, sent, pc]
    hEvents,     \* number of remote events handled (one UI event is emitted per event)
    hAsm,        \* per artifact id, the chunk sequence received so far
    \* ---- event streams from the remote agents to the host (SpecEv)
    evWire,      \* per turn, the events the remote agent emitted and the host has not read yet
    evSeq,       \* number of events the remote agents have emitted
    evDict,      \* _events of the host in insertion order, each [task, seq, kind, state, ts]
    \* ---- 0.2 server with automatic agent selection (SpecSel)
    selModule,   \* the entry point that runs: "main" (__main__.py) or "app" (app.py)
    selCurrent,  \* SmartRequestHandler.current_executor: "currency" or "element"
    selAwaited,  \* queries whose analyze_request coroutine the lru_cache holds
    selLast,     \* the last call: what was asked, what was decided, which executor ran
    selCalls,    \* number of calls so far
    \* ---- 0.2 QueryCache (SpecCache)
    qcCache,     \* query_cache.cache in insertion order, each [key, kw, llm, ts]
    qcClock,     \* time.time()
    qcUse,       \* the cached keys from the least to the most recently used
    qcLast,      \* the last lookup: its key, what get() found, what was evicted
    \* ---- agent registration at host startup (SpecReg)
    regMode,     \* which host starts: "webui" (HostAgent.create) or "cli" (HostAgentCLI.run)
    regAddrs,    \* the configured addresses, each with the outcome of its card resolution
    regPc,       \* index of the next address of the startup loop
    regAgents,   \* the registry: the registered cards in insertion order, each [name, addr]
    \* ---- concurrent task_callback calls (SpecCb)
    cbProc,      \* _processing_tasks
    cbPending,   \* per turn, the event its task_callback call is applying, or None
    cbLast,      \* per turn, the last event passed to task_callback and the state returned
    \* ---- artifact parts (SpecArt)
    artSeen,     \* per task, the number of parts its artifact events have carried
    artLast,     \* the artifact event processed last: its artifactId, append and lastChunk
    \* ---- pending message ids (SpecPm)
    pmMsgs,      \* per message, the position of its process_message call and its inputs
    pmPending,   \* _pending_message_ids
    \* ---- concurrent execute calls (SpecConc)
    ccReqs,      \* per request, its query, its position, the executor picked and the one run
    \* ---- send_message tool calls of one host run (SpecSend)
    snTaskId,    \* state['task_id'] of the tool context
    snTasks,     \* per task id, the task's state at the remote agent, "absent" when unknown
    snSent,      \* the last message sent: its taskId and the state of that task when sent
    snCalls,     \* number of send_message calls so far
    snPc,        \* the host run: "idle", "run" or "raised"
    snLast,      \* the task id of the conversation's last message
    \* ---- command-line client (SpecCli)
    cliRunning,  \* the while loop of cli() has not ended
    cliDepth,    \* nested completeTask calls waiting at the follow-up prompt
    cliLast,     \* the last prompt: where it was shown, what was entered, what came back
    cliPrompts,  \* number of prompts answered
    \* ---- remote-agent subprocesses of the host CLI (SpecProc)
    prPc,        \* index of the next agent start_remote_agents starts
    prProcs,     \* per agent, its subprocess: "none", "alive", "exited" or "stopped"
    prTracked,   \* the keys of agent_processes
    prCleaned,   \* cleanup has run
    \* ---- file-chat executor (SpecChat)
    fcSaved,     \* ctx_states: per context id, the execution whose context is saved, 0 for none
    fcLast,      \* per context id, the number and the outcome of its last execution
    fcRuns       \* number of executions so far

execVars == <<exKind, exPc, exCurTask, exHasMsg, exItems, exRaises, exQueue, exCancel>>

tmVars == <<tmStore, tmSubs, tmResp, tmReqs, tmPush>>

hostVars == <<hTasks, hChunks, hTaskMap, hConv, hTurns, hEvents, hAsm>>

evVars == <<evWire, evSeq, evDict>>

selVars == <<selModule, selCurrent, selAwaited, selLast, selCalls>>

cacheVars == <<qcCache, qcClock, qcUse, qcLast>>

regVars == <<regMode, regAddrs, regPc, regAgents>>

cbVars == <<cbProc, cbPending, cbLast>>

artVars == <<artSeen, artLast>>

auxVars == <<cacheVars, regVars, cbVars, artVars>>

pmVars == <<pmMsgs, pmPending>>

ccVars == <<ccReqs>>

snVars == <<snTaskId, snTasks, snSent, snCalls, snPc, snLast>>

cliVars == <<cliRunning, cliDepth, cliLast, cliPrompts>>

prVars == <<prPc, prProcs, prTracked, prCleaned>>

fcVars == <<fcSaved, fcLast, fcRuns>>

lateVars == <<pmVars, ccVars, snVars, cliVars, prVars, fcVars>>

vars == <<execVars, tmVars, hostVars, evVars, selVars, auxVars, lateVars>>

None == "none"

(***************************************************************************)
(* Task states (a2a.types.TaskState as used by the executors and the host) *)
(***************************************************************************)
TerminalStates == {"completed", "canceled", "failed"}

\* The bound on the number of items one agent.stream() run yields.
MaxItems == 3

SeqsUpTo(S, n) == UNION {[1..k -> S] : k \in 0..n}

(***************************************************************************)
(* Events an executor puts on the EventQueue.                              *)
(***************************************************************************)
TaskEv(s) == [kind |-> "task", state |-> s, final |-> FALSE]
StatusEv(s, f) == [kind |-> "status", state |-> s, final |-> f]
ArtifactEv == [kind |-> "artifact", state |-> "-", final |-> FALSE]

(***************************************************************************)
(* Items of agent.stream(): is_task_complete, require_user_input and, for  *)
(* the ADK agent, the shape of item['content'].                            *)
(***************************************************************************)
StdItems == {[complete |-> c, require |-> r, content |-> "text"] : c, r \in BOOLEAN}

AdkItems ==
    {[complete |-> FALSE, require |-> FALSE, content |-> "text"]}
    \cup {[complete |-> TRUE, require |-> FALSE, content |-> c] :
              c \in {"text", "form", "result", "other"}}

ItemsOf(k) == IF k = "adk" THEN AdkItems ELSE StdItems

\* AG2AgentExecutor.execute, the body of the async-for loop: no branch leaves the loop.
AG2Events(item) ==
    IF ~item.complete /\ ~item.require THEN <<StatusEv("working", FALSE)>>
    ELSE IF item.require THEN <<StatusEv("input_required", TRUE)>>
    ELSE <<ArtifactEv, StatusEv("completed", TRUE)>>

AG2Breaks(item) == FALSE

\* SemanticKernelTravelAgentExecutor.execute, the body of the async-for loop.
SKEvents(item) ==
    IF item.require THEN <<StatusEv("input_required", TRUE)>>
    ELSE IF item.complete THEN <<ArtifactEv, StatusEv("completed", TRUE)>>
    ELSE <<StatusEv("working", FALSE)>>

SKBreaks(item) == FALSE

\* CurrencyAgentExecutor.execute, the body of the async-for loop.
LGEvents(item) ==
    IF ~item.complete /\ ~item.require THEN <<StatusEv("working", FALSE)>>
    ELSE IF item.require THEN <<StatusEv("input_required", TRUE)>>
    ELSE <<ArtifactEv, StatusEv("completed", TRUE)>>

LGBreaks(item) == item.complete \/ item.require

\* ReimbursementAgentExecutor.execute, the body of the async-for loop.
ADKEvents(item) ==
    IF ~item.complete THEN <<StatusEv("working", FALSE)>>
    ELSE IF item.content = "form" THEN <<StatusEv("input_required", TRUE)>>
    ELSE IF item.content = "result" THEN <<StatusEv("completed", TRUE)>>
    ELSE IF item.content = "other" THEN <<StatusEv("failed", TRUE)>>
    ELSE <<ArtifactEv, StatusEv("completed", TRUE)>>

ADKBreaks(item) == item.complete /\ item.content \in {"other", "text"}

EventsFor(k, item) ==
    CASE k = "ag2" -> AG2Events(item)
      [] k = "sk"  -> SKEvents(item)
      [] k = "lg"  -> LGEvents(item)
      [] k = "adk" -> ADKEvents(item)

Breaks(k, item) ==
    CASE k = "ag2" -> AG2Breaks(item)
      [] k = "sk"  -> SKBreaks(item)
      [] k = "lg"  -> LGBreaks(item)
      [] k = "adk" -> ADKBreaks(item)

\* What execute() does when context.current_task is None and context.message is
\* missing: AG2 logs and returns; LangGraph raises ServerError(InvalidParamsError);
\* the others hand None to new_task(), which raises.
NoMessageOutcome(k) == IF k = "ag2" THEN "done" ELSE "raised"

(***************************************************************************)
(* execute(): the prologue up to the async-for loop.                       *)
(***************************************************************************)
ExecStart ==
    /\ exPc = "start"
    /\ IF exCurTask # None
          THEN /\ exPc' = "loop"
               /\ exQueue' = exQueue
          ELSE IF exHasMsg
                  THEN /\ exPc' = "loop"
                       /\ exQueue' = Append(exQueue, TaskEv("submitted"))
                  ELSE /\ exPc' = NoMessageOutcome(exKind)
                       /\ exQueue' = exQueue
    /\ UNCHANGED <<exKind, exCurTask, exHasMsg, exItems, exRaises, exCancel>>
    /\ UNCHANGED <<tmVars, hostVars, evVars, selVars, auxVars, lateVars>>

\* One iteration of `async for item in self.agent.stream(...)`.
ExecStep ==
    /\ exPc = "loop"
    /\ exItems # <<>>
    /\ LET item == Head(exItems) IN
          /\ exQueue' = exQueue \o EventsFor(exKind, item)
          /\ exPc' = IF Breaks(exKind, item) THEN "done" ELSE "loop"
    /\ exItems' = Tail(exItems)
    /\ UNCHANGED <<exKind, exCurTask, exHasMsg, exRaises, exCancel>>
    /\ UNCHANGED <<tmVars, hostVars, evVars, selVars, auxVars, lateVars>>

\* The stream is exhausted: it ends, or it raises. LangGraph's except clause
\* re-raises as ServerError(InternalError); the other executors let it propagate.
\* No executor enqueues an event on that path.
ExecEnd ==
    /\ exPc = "loop"
    /\ exItems = <<>>
    /\ exPc' = IF exRaises THEN "raised" ELSE "done"
    /\ UNCHANGED <<exKind, exCurTask, exHasMsg, exItems, exRaises, exQueue, exCancel>>
    /\ UNCHANGED <<tmVars, hostVars, evVars, selVars, auxVars, lateVars>>

\* cancel(context, event_queue) of the executor: every one raises and enqueues nothing.
CancelOutcome(k) == IF k \in {"adk", "lg"} THEN "unsupported" ELSE "exception"

\* A mutant of CancelEvents: cancel enqueues the canceled terminal event.
CancelEventsMutant(k) == <<StatusEv("canceled", TRUE)>>

CancelEvents(k) == <<>>

ExecCancel ==
    /\ exCancel = None
    /\ exCancel' = CancelOutcome(exKind)
    /\ exQueue' = exQueue \o CancelEvents(exKind)
    /\ UNCHANGED <<exKind, exPc, exCurTask, exHasMsg, exItems, exRaises>>
    /\ UNCHANGED <<tmVars, hostVars, evVars, selVars, auxVars, lateVars>>

(***************************************************************************)
(* The 0.1 AgentTaskManager over the in-memory task store.                 *)
(*                                                                         *)
(* The store (InMemoryTaskManager: upsert_task, update_store, the SSE      *)
(* subscriber queues) follows the specification, sections 4.3 and 4.4; the *)
(* handlers are AgentTaskManager's.                                        *)
(***************************************************************************)
TMTasks == {"t1", "t2"}

\* Bounds: requests handled, subscribers created, working items of one stream.
MaxReqs == 2
MaxSubs == 2
MaxWork == 2

\* A user message: its text and what its first part is.
UserMsgs ==
    {[body |-> "m1", first |-> "text"], [body |-> "m2", first |-> "text"],
     [body |-> "m3", first |-> "file"], [body |-> "m4", first |-> "empty"]}

AgentMsg == [body |-> "agent", first |-> "text"]

NoMsg == [body |-> None, first |-> None]

AbsentTask == [state |-> "absent", hist |-> <<>>, arts |-> 0]

ErrorEv == [kind |-> "error", state |-> "-", final |-> FALSE]

\* upsert_task: create if absent (submitted, history seeded with the message),
\* else append the message to the history.
UpsertTask(store, t, m) ==
    IF store[t].state = "absent"
       THEN [store EXCEPT ![t] = [state |-> "submitted", hist |-> <<m>>, arts |-> 0]]
       ELSE [store EXCEPT ![t].hist = Append(@, m)]

\* update_store rejects an update to a terminal task.
StoreRejects(store, t) == store[t].state \in TerminalStates

\* update_store: set the status, append the status message (if any) to the history and
\* the artifacts to the task.
UpdateStore(store, t, st, msgs, narts) ==
    [store EXCEPT ![t] = [state |-> st,
                          hist |-> @.hist \o msgs,
                          arts |-> @.arts + narts]]

\* enqueue_events_for_sse: fan the events out to every subscriber queue of the task.
EnqueueSSE(subs, t, evs) ==
    [i \in 1..Len(subs) |->
        IF subs[i].task = t THEN [subs[i] EXCEPT !.q = @ \o evs] ELSE subs[i]]

\* dequeue_events_for_sse: the subscriber receives its queue in order, and the
\* stream closes after the final=true event or after an error.
Closes(e) == e.final \/ e.kind = "error"

RECURSIVE Delivered(_)
Delivered(q) ==
    IF q = <<>> THEN <<>>
    ELSE IF Closes(Head(q)) THEN <<Head(q)>>
    ELSE <<Head(q)>> \o Delivered(Tail(q))

StreamClosed(q) == \E i \in 1..Len(q) : Closes(q[i])

\* _get_user_query raises ValueError unless the first part is a text part.
QueryRaises(m) == m.first # "text"

\* _process_agent_response: COMPLETED with one artifact when the response asks
\* for no user input and is complete, FAILED otherwise.
ResponseState(r) == IF r = "complete" THEN "completed" ELSE "failed"

ResponseArtifacts(r) == IF r = "complete" THEN 1 ELSE 0

\* What a request says of its accepted output modes (compatible with the
\* agent's content types or not) and of its push-notification config: none,
\* one without a URL, one whose URL verifies ("good") or does not ("bad").
AgentOutcomes == {"complete", "need_input", "raise"}

Deliveries == {"ok", "fail"}

TMRequests ==
    {[task |-> t, msg |-> m, modes |-> o, push |-> p] :
        t \in TMTasks, m \in UserMsgs, o \in {"ok", "bad"},
        p \in {"none", "nourl", "good", "bad"}}

\* A mutant of ValidateRequest: nothing is validated.
ValidateNothing(req) == None

\* _validate_request: the error it returns, or none.
ValidateRequest(req) ==
    IF req.modes = "bad" THEN "incompatible_types"
    ELSE IF req.push = "nourl" THEN "invalid_params"
    ELSE None

\* verify_push_notification_url of the sender: does the receiver echo the token.
PushVerified(req) == req.push = "good"

\* A mutant of SetPushNotificationInfo: the config is stored whatever the verification says.
SetPushUnverified(push, req) == [push EXCEPT ![req.task] = "url"]

\* set_push_notification_info: the config is stored when the URL is verified.
SetPushNotificationInfo(push, req) ==
    IF PushVerified(req) THEN [push EXCEPT ![req.task] = "url"] ELSE push

\* send_task_notification: the number of POSTs it makes for task t.
Notifications(push, t) == IF push[t] = None THEN 0 ELSE 1

\* send_push_notification of the sender logs a failed delivery and returns.
SenderRaises(del) == FALSE

\* A mutant of NotifyRaises: send_task_notification raises on a failed POST.
NotifyRaisesOnFailure(push, t, del) == Notifications(push, t) > 0 /\ del = "fail"

\* send_task_notification awaits the sender with no try/except and ignores
\* what it returns: it raises exactly when the sender does.
NotifyRaises(push, t, del) == Notifications(push, t) > 0 /\ SenderRaises(del)

Response(method, req, kind, cause, posts, del) ==
    [method |-> method, kind |-> kind, cause |-> cause, task |-> req.task,
     msg |-> req.msg, posts |-> posts, del |-> IF posts = 0 THEN None ELSE del]

\* on_send_task as a function of the state: the store, the push configs and
\* the response it leaves. `r` is what agent.invoke does: "complete",
\* "need_input" (require_user_input or not is_task_complete) or "raise"; `del`
\* is what happens to the POSTs of this call: "ok" or "fail".
SendTaskResult(store, push, req, r, del) ==
    LET t  == req.task
        p1 == IF req.push = "none" THEN push ELSE SetPushNotificationInfo(push, req)
        s1 == UpsertTask(store, t, req.msg)
        s2 == UpdateStore(s1, t, "working", <<>>, 0)
        s3 == UpdateStore(s2, t, ResponseState(r), <<AgentMsg>>, ResponseArtifacts(r))
        n  == Notifications(p1, t)
    IN  IF ValidateRequest(req) # None
           THEN [store |-> store, push |-> push,
                 resp |-> Response("send", req, "error", ValidateRequest(req), 0, del)]
        ELSE IF req.push # "none" /\ ~PushVerified(req)
           THEN [store |-> store, push |-> p1,
                 resp |-> Response("send", req, "error", "invalid_params", 0, del)]
        ELSE IF StoreRejects(s1, t)
           THEN [store |-> s1, push |-> p1,
                 resp |-> Response("send", req, "raised", "store", 0, del)]
        ELSE IF NotifyRaises(p1, t, del)
           THEN [store |-> s2, push |-> p1,
                 resp |-> Response("send", req, "raised", "notify", n, del)]
        ELSE IF QueryRaises(req.msg)
           THEN [store |-> s2, push |-> p1,
                 resp |-> Response("send", req, "raised", "query", n, del)]
        ELSE IF r = "raise"
           THEN [store |-> s2, push |-> p1,
                 resp |-> Response("send", req, "raised", "agent", n, del)]
        ELSE [store |-> s3, push |-> p1,
              resp |-> Response("send", req, "task", None, n + n, del)]

\* on_send_task. The agent's outcome is drawn only when the agent is invoked, a
\* delivery outcome only when a POST is made.
OnSendTask(req, r, del) ==
    /\ tmReqs < MaxReqs
    /\ tmReqs' = tmReqs + 1
    /\ LET res == SendTaskResult(tmStore, tmPush, req, r, del)
       IN  /\ res.resp.posts = 0 => del = "ok"
           /\ (res.resp.kind = "error" \/ res.resp.cause \in {"store", "notify", "query"})
                 => r = "complete"
           /\ tmStore' = res.store
           /\ tmPush' = res.push
           /\ tmResp' = res.resp
    /\ UNCHANGED tmSubs

\* on_send_task_subscribe: validate, upsert the task, set the push config,
\* create the SSE queue, start _run_streaming_agent in the background. `n` is
\* the number of working items the agent's stream yields before its final
\* item. _run_streaming_agent reads the user query before its try block: when
\* that raises, the run ends there.
OnSendTaskSubscribe(req, n) ==
    /\ tmReqs < MaxReqs
    /\ Len(tmSubs) < MaxSubs
    /\ tmReqs' = tmReqs + 1
    /\ IF ValidateRequest(req) # None
          THEN /\ tmResp' = Response("subscribe", req, "error", ValidateRequest(req), 0, None)
               /\ UNCHANGED <<tmStore, tmPush, tmSubs>>
       ELSE IF req.push # "none" /\ ~PushVerified(req)
          THEN /\ tmStore' = UpsertTask(tmStore, req.task, req.msg)
               /\ tmPush' = SetPushNotificationInfo(tmPush, req)
               /\ tmResp' = Response("subscribe", req, "error", "invalid_params", 0, None)
               /\ UNCHANGED tmSubs
       ELSE /\ tmStore' = UpsertTask(tmStore, req.task, req.msg)
            /\ tmPush' = IF req.push = "none" THEN tmPush
                         ELSE SetPushNotificationInfo(tmPush, req)
            /\ tmSubs' = Append(tmSubs, [task |-> req.task, q |-> <<>>,
                                 run |-> IF QueryRaises(req.msg) THEN "died" ELSE "run",
                                 left |-> n, posts |-> 0])
            /\ tmResp' = Response("subscribe", req, "stream", None, 0, None)

\* A mutant of IterationEvents: the status event is enqueued before the artifact event.
IterationEventsSwapped(complete) ==
    IF complete THEN <<StatusEv("completed", TRUE), ArtifactEv>>
    ELSE <<StatusEv("working", FALSE)>>

\* The events of one iteration of _run_streaming_agent, in enqueue order.
IterationEvents(complete) ==
    IF complete THEN <<ArtifactEv, StatusEv("completed", TRUE)>>
    ELSE <<StatusEv("working", FALSE)>>

\* One iteration of the loop of _run_streaming_agent of subscriber i's run, as
\* a function of the state: update_store, send_task_notification, then the
\* artifact event (if any), then the status event. When update_store (or the
\* notification) raises, the except clause enqueues an InternalError.
RunStreamingResult(store, subs, push, i, del) ==
    LET t == subs[i].task
        complete == subs[i].left = 0
        n == Notifications(push, t)
        s1 == UpdateStore(store, t,
                          IF complete THEN "completed" ELSE "working",
                          IF complete THEN <<>> ELSE <<AgentMsg>>,
                          IF complete THEN 1 ELSE 0)
    IN  IF StoreRejects(store, t)
           THEN [store |-> store,
                 subs |-> EnqueueSSE([subs EXCEPT ![i].run = "error"], t, <<ErrorEv>>)]
        ELSE IF NotifyRaises(push, t, del)
           THEN [store |-> s1,
                 subs |-> EnqueueSSE([subs EXCEPT ![i].run = "error", ![i].posts = @ + n],
                                     t, <<ErrorEv>>)]
        ELSE [store |-> s1,
              subs |-> EnqueueSSE(
                          [subs EXCEPT ![i].run = IF complete THEN "done" ELSE "run",
                                       ![i].left = IF complete THEN 0 ELSE @ - 1,
                                       ![i].posts = @ + n],
                          t, IterationEvents(complete))]

RunStreamingStep(i, del) ==
    /\ tmSubs[i].run = "run"
    /\ Notifications(tmPush, tmSubs[i].task) = 0 => del = "ok"
    /\ LET res == RunStreamingResult(tmStore, tmSubs, tmPush, i, del)
       IN  /\ tmStore' = res.store
           /\ tmSubs' = res.subs
    /\ UNCHANGED <<tmResp, tmReqs, tmPush>>

NoResponse ==
    [method |-> None, kind |-> None, cause |-> None, task |-> None, msg |-> NoMsg,
     posts |-> 0, del |-> None]

TMIdle ==
    /\ tmStore = [t \in TMTasks |-> AbsentTask]
    /\ tmSubs = <<>>
    /\ tmResp = NoResponse
    /\ tmReqs = 0
    /\ tmPush = [t \in TMTasks |-> None]

ExecIdle ==
    /\ exKind = "ag2"
    /\ exPc = "done"
    /\ exCurTask = None
    /\ exHasMsg = FALSE
    /\ exItems = <<>>
    /\ exRaises = FALSE
    /\ exQueue = <<>>
    /\ exCancel = "exception"


(***************************************************************************)
(* The web host: ADKHostManager. A process_message thread (a turn) hands   *)
(* the user message to the host agent, whose send_message tool calls the   *)
(* remote agent; every event of the remote agent goes through              *)
(* task_callback.                                                          *)
(***************************************************************************)
HTasks == {"t1", "t2"}

HArtIds == {"a1"}

HParts == {<<"a">>, <<"b">>}

\* lastChunk of an artifact event: absent, true or false.
LastChunkValues == {None, "true", "false"}

HStatusStates == {"working", "input_required", "completed", "failed"}

\* Bounds: turns started, remote events handled.
MaxTurns == 2
MaxEvents == 4

\* task_still_open: submitted, working and input_required are open.
OpenStates == {"submitted", "working", "input_required"}

HasTask(tasks, t) == \E i \in 1..Len(tasks) : tasks[i].id = t

TaskIndex(tasks, t) == CHOOSE i \in 1..Len(tasks) : tasks[i].id = t /\ \A j \in 1..(i - 1) : tasks[j].id # t

\* add_or_get_task: the stored task of that id, else a new submitted task
\* appended to the list.
AddOrGetTask(tasks, t) ==
    IF HasTask(tasks, t) THEN tasks
    ELSE Append(tasks, [id |-> t, state |-> "submitted", arts |-> <<>>, hist |-> <<>>])

\* insert_message_history: the status message goes to the history unless its
\* id is already there.
InsertMessageHistory(hist, m) ==
    IF m = None THEN hist
    ELSE IF hist # <<>> /\ (\A k \in 1..Len(hist) : hist[k] # m) THEN Append(hist, m)
    ELSE IF hist = <<>> THEN <<m>>
    ELSE hist

\* attach_message_to_task
AttachMessage(map, m, t) == IF m = None THEN map ELSE [map EXCEPT ![m] = t]

\* A mutant of ExtendTemp: the chunk's parts are put in front.
ExtendTempFront(temp, parts) == [temp EXCEPT !.parts = parts \o @]

\* current_temp_artifact.parts.extend(artifact.parts)
ExtendTemp(temp, parts) == [temp EXCEPT !.parts = @ \o parts]

\* process_artifact_event on the task at index i: the new <<tasks, chunks>>.
ProcessArtifactEvent(tasks, chunks, i, aid, append, last, parts) ==
    IF ~append
       THEN IF last = None \/ last = "true"
               THEN <<[tasks EXCEPT ![i].arts = Append(@, [aid |-> aid, parts |-> parts])],
                      chunks>>
               ELSE <<tasks, [chunks EXCEPT ![aid] = Append(@, [aid |-> aid, parts |-> parts])]>>
       ELSE IF chunks[aid] = <<>>
               THEN <<tasks, chunks>>
               ELSE LET n == Len(chunks[aid])
                        temp == ExtendTemp(chunks[aid][n], parts)
                    IN  IF last = "true"
                           THEN <<[tasks EXCEPT ![i].arts = Append(@, temp)],
                                  [chunks EXCEPT ![aid] = SubSeq(@, 1, n - 1)]>>
                           ELSE <<tasks, [chunks EXCEPT ![aid] = [@ EXCEPT ![n] = temp]]>>

\* The chunk sequence of an artifact id as the events give it: "open" after a
\* first chunk (append=false, lastChunk=false), still open after append chunks
\* of the same task, "closed" by the append chunk with lastChunk=true; any
\* other event naming the id makes it "other".
AsmNext(asm, t, aid, append, last, parts) ==
    IF asm.phase = "none" /\ ~append /\ last = "false"
       THEN [phase |-> "open", owner |-> t, parts |-> parts]
    ELSE IF asm.phase = "open" /\ append /\ asm.owner = t
       THEN [phase |-> IF last = "true" THEN "closed" ELSE "open",
             owner |-> t, parts |-> asm.parts \o parts]
    ELSE [phase |-> "other", owner |-> None, parts |-> <<>>]

\* sanitize_message: the task id of the conversation's last message when that
\* task is still open, else none.
SanitizeMessage(conv, tasks) ==
    IF conv = <<>> THEN None
    ELSE LET t == conv[Len(conv)].task
         IN  IF t # None /\ HasTask(tasks, t) /\ tasks[TaskIndex(tasks, t)].state \in OpenStates
                THEN t ELSE None

\* _send_message of the server: sanitize_message, then process_message in a
\* thread of its own, which first appends the user message to the conversation.
SendMessageUpTo(n) ==
    /\ Len(hTurns) < n
    /\ LET t == SanitizeMessage(hConv, hTasks)
       IN  /\ hConv' = Append(hConv, [role |-> "user", task |-> t])
           /\ hTurns' = Append(hTurns, [task |-> t, sent |-> "-", pc |-> "host"])
    /\ UNCHANGED <<hTasks, hChunks, hTaskMap, hEvents, hAsm>>

SendMessage == SendMessageUpTo(MaxTurns)

\* HostAgent.send_message: the message goes to the remote agent with the task
\* id of the session state.
HostSend(i) ==
    /\ hTurns[i].pc = "host"
    /\ hTurns' = [hTurns EXCEPT ![i].pc = "remote", ![i].sent = hTurns[i].task]
    /\ UNCHANGED <<hTasks, hChunks, hTaskMap, hConv, hEvents, hAsm>>

\* The task id of the next remote event of turn i: the id the message was sent
\* with or the id of the earlier events, else an id the remote agent picks.
EventTaskIds(i) == IF hTurns[i].task = None THEN HTasks ELSE {hTurns[i].task}

\* task_callback with a TaskStatusUpdateEvent.
TaskCallbackStatus(i, t, st, m) ==
    /\ hTurns[i].pc = "remote"
    /\ hEvents < MaxEvents
    /\ t \in EventTaskIds(i)
    /\ LET tasks == AddOrGetTask(hTasks, t)
           k == TaskIndex(tasks, t)
       IN  hTasks' = [tasks EXCEPT ![k].state = st,
                                   ![k].hist = InsertMessageHistory(@, m)]
    /\ hTaskMap' = AttachMessage(hTaskMap, m, t)
    /\ hTurns' = [hTurns EXCEPT ![i].task = t]
    /\ hEvents' = hEvents + 1
    /\ UNCHANGED <<hChunks, hConv, hAsm>>

\* task_callback with a TaskArtifactUpdateEvent.
TaskCallbackArtifact(i, t, aid, append, last, parts) ==
    /\ hTurns[i].pc = "remote"
    /\ hEvents < MaxEvents
    /\ t \in EventTaskIds(i)
    /\ LET tasks == AddOrGetTask(hTasks, t)
           r == ProcessArtifactEvent(tasks, hChunks, TaskIndex(tasks, t), aid, append, last, parts)
       IN  /\ hTasks' = r[1]
           /\ hChunks' = r[2]
    /\ hAsm' = [hAsm EXCEPT ![aid] = AsmNext(@, t, aid, append, last, parts)]
    /\ hTurns' = [hTurns EXCEPT ![i].task = t]
    /\ hEvents' = hEvents + 1
    /\ UNCHANGED <<hTaskMap, hConv>>

\* The user message a remote executor seeds the history of its Task with
\* (new_task(context.message)).
HUserMsg == "u"

\* task_callback with a Task: added when its id is new, else it replaces the
\* stored task.
TaskCallbackTask(i, t, st) ==
    /\ hTurns[i].pc = "remote"
    /\ hEvents < MaxEvents
    /\ t \in EventTaskIds(i)
    /\ LET task == [id |-> t, state |-> st, arts |-> <<>>, hist |-> <<HUserMsg>>]
       IN  hTasks' = IF HasTask(hTasks, t)
                        THEN [hTasks EXCEPT ![TaskIndex(hTasks, t)] = task]
                        ELSE Append(hTasks, task)
    /\ hTurns' = [hTurns EXCEPT ![i].task = t]
    /\ hEvents' = hEvents + 1
    /\ UNCHANGED <<hChunks, hTaskMap, hConv, hAsm>>

\* HostAgent.send_message raises when the remote task ended canceled or failed.
HostRaises(i) ==
    /\ hTurns[i].pc = "remote"
    /\ hTurns[i].task # None
    /\ HasTask(hTasks, hTurns[i].task)
    /\ hTasks[TaskIndex(hTasks, hTurns[i].task)].state \in {"canceled", "failed"}

\* The end of process_message: the response, carrying the task id of the
\* session state, is appended to the conversation.
TurnEnd(i) ==
    /\ hTurns[i].pc \in {"host", "remote"}
    /\ IF HostRaises(i)
          THEN /\ hTurns' = [hTurns EXCEPT ![i].pc = "raised"]
               /\ hConv' = hConv
          ELSE /\ hTurns' = [hTurns EXCEPT ![i].pc = "done"]
               /\ hConv' = Append(hConv, [role |-> "agent", task |-> hTurns[i].task])
    /\ UNCHANGED <<hTasks, hChunks, hTaskMap, hEvents, hAsm>>

HostIdle ==
    /\ hTasks = <<>>
    /\ hChunks = [a \in HArtIds |-> <<>>]
    /\ hTaskMap = [m \in {"x1"} |-> None]
    /\ hConv = <<>>
    /\ hTurns = <<>>
    /\ hEvents = 0
    /\ hAsm = [a \in HArtIds |-> [phase |-> "none", owner |-> None, parts |-> <<>>]]

(***************************************************************************)
(* Event streams: RemoteAgentConnections.send_message reads the events of  *)
(* a streaming response one by one and hands each to task_callback, which  *)
(* emits a UI event stamped with the wall clock and updates the task.      *)
(***************************************************************************)

\* Bounds: events emitted by the remote agents; the wall-clock readings are
\* 0..MaxClock.
MaxEmit == 3
MaxClock == 1

\* The events a remote agent emits on a stream: status updates, a complete
\* artifact, the Task itself.
EvShapes ==
    {[kind |-> "status", state |-> st] : st \in {"working", "completed"}}
        \cup {[kind |-> "artifact", state |-> None], [kind |-> "task", state |-> "submitted"]}

\* The task id of the next event on the stream of turn i: the id of the
\* events before it, else the id the message was sent with, else a new id.
StreamTaskIds(i) ==
    IF evWire[i] # <<>> THEN {evWire[i][1].task}
    ELSE IF hTurns[i].task # None THEN {hTurns[i].task}
    ELSE {t \in HTasks : ~HasTask(hTasks, t) /\ \A j \in DOMAIN evWire :
              \A n \in 1..Len(evWire[j]) : evWire[j][n].task # t}

\* The remote agent emits an event on the stream of turn i.
EvEmit(i, shape, t) ==
    /\ hTurns[i].pc = "remote"
    /\ evSeq < MaxEmit
    /\ t \in StreamTaskIds(i)
    /\ evSeq' = evSeq + 1
    /\ evWire' = [evWire EXCEPT ![i] =
                     Append(@, [kind |-> shape.kind, state |-> shape.state,
                                task |-> t, seq |-> evSeq + 1])]
    /\ UNCHANGED <<hostVars, evDict>>

\* emit_event and add_event: the UI event is stored under a new id with the
\* wall-clock reading ts as its timestamp.
EmitEvent(dict, e, ts) ==
    Append(dict, [task |-> e.task, seq |-> e.seq, kind |-> e.kind, state |-> e.state, ts |-> ts])

\* One iteration of the loop of send_message: the next event of the stream
\* goes to task_callback, which emits the UI event and updates the task.
EvDeliver(i, ts) ==
    /\ i \in DOMAIN evWire
    /\ evWire[i] # <<>>
    /\ LET e == Head(evWire[i])
       IN  /\ \/ e.kind = "status" /\ TaskCallbackStatus(i, e.task, e.state, None)
              \/ e.kind = "artifact" /\ TaskCallbackArtifact(i, e.task, "a1", FALSE, None, <<"a">>)
              \/ e.kind = "task" /\ TaskCallbackTask(i, e.task, e.state)
           /\ evDict' = EmitEvent(evDict, e, ts)
    /\ evWire' = [evWire EXCEPT ![i] = Tail(@)]
    /\ UNCHANGED evSeq

\* The stream of turn i is exhausted and process_message ends.
EvTurnEnd(i) ==
    /\ evWire[i] = <<>>
    /\ TurnEnd(i)
    /\ UNCHANGED evVars

RECURSIVE InsertByTimestamp(_, _)
\* sorted() is stable: an event goes after the events whose timestamp is not
\* greater than its own.
InsertByTimestamp(sorted, e) ==
    IF sorted = <<>> THEN <<e>>
    ELSE IF Head(sorted).ts <= e.ts
            THEN <<Head(sorted)>> \o InsertByTimestamp(Tail(sorted), e)
            ELSE <<e>> \o sorted

RECURSIVE SortedByTimestamp(_)
SortedByTimestamp(dict) ==
    IF dict = <<>> THEN <<>>
    ELSE InsertByTimestamp(SortedByTimestamp(SubSeq(dict, 1, Len(dict) - 1)), dict[Len(dict)])

\* The events property: the stored events sorted by timestamp.
Events == SortedByTimestamp(evDict)

EvIdle ==
    /\ evWire = [i \in 1..MaxTurns |-> <<>>]
    /\ evSeq = 0
    /\ evDict = <<>>

(***************************************************************************)
(* The 0.2 server in automatic selection mode: the keyword scorer, the LLM *)
(* verdict, the combiner of SmartRequestHandler.execute and the executor   *)
(* that runs a request.  Scores are in hundredths, confidences in          *)
(* thousandths rounded down.                                               *)
(***************************************************************************)

\* Bound: calls made.
MaxCalls == 3

\* Thresholds of the combiner, in thousandths.
LowConfidence == 650
LLMConfidence == 800
AgreedConfidence == 850

\* Weights of the lexicon entries the queries below contain, in hundredths.
CurrencyKeywords ==
    [k \in {"exchange rate", "exchange", "dollar", "usd", "eur", "convert", "rate", "price", "market"} |->
        CASE k = "exchange rate" -> 300
          [] k = "exchange" -> 250
          [] k = "dollar" -> 200
          [] k \in {"usd", "eur", "convert"} -> 150
          [] k = "rate" -> 100
          [] OTHER -> 80]

ElementKeywords ==
    [k \in {"atom", "atomic", "hydrogen", "carbon", "h2o", "metal"} |->
        CASE k \in {"atom", "atomic", "hydrogen", "carbon"} -> 200
          [] k = "h2o" -> 150
          [] OTHER -> 80]

\* A query is given by the lexicon entries that occur in it as substrings;
\* none of the queries holds an ambiguous term or an intent word next to a
\* domain word.
Queries ==
    {[text |-> "convert 100 USD to EUR", cur |-> {"convert", "usd", "eur"}, elm |-> {}],
     [text |-> "What is the atomic number of Hydrogen?", cur |-> {}, elm |-> {"atom", "atomic", "hydrogen"}],
     [text |-> "carbon price in dollar", cur |-> {"price", "dollar"}, elm |-> {"carbon"}],
     [text |-> "hydrogen price", cur |-> {"price"}, elm |-> {"hydrogen"}],
     [text |-> "exchange rate hydrogen h2o", cur |-> {"exchange rate", "exchange", "rate"}, elm |-> {"hydrogen", "h2o"}],
     [text |-> "metal market", cur |-> {"market"}, elm |-> {"metal"}],
     [text |-> "hello", cur |-> {}, elm |-> {}]}

QueryOf(text) == CHOOSE q \in Queries : q.text = text

RECURSIVE Score(_, _)
\* The sum of the weights of the matched keywords.
Score(matched, weights) ==
    IF matched = {} THEN 0
    ELSE LET k == CHOOSE x \in matched : TRUE
         IN  weights[k] + Score(matched \ {k}, weights)

\* The scorer giving the winner the loser's share.
AnalyzeRequestByKeywordsLoser(q) ==
    LET c == Score(q.cur, CurrencyKeywords)
        e == Score(q.elm, ElementKeywords)
    IN  IF c + e > 0
           THEN IF c > e
                   THEN [agent |-> "currency", conf |-> (1000 * e) \div (c + e)]
                   ELSE [agent |-> "element", conf |-> (1000 * c) \div (c + e)]
           ELSE [agent |-> "element", conf |-> 500]

\* analyze_request_by_keywords: the domain with the greater score, with its
\* share of the total as confidence; the element agent on a tie.
AnalyzeRequestByKeywords(q) ==
    LET c == Score(q.cur, CurrencyKeywords)
        e == Score(q.elm, ElementKeywords)
    IN  IF c + e > 0
           THEN IF c > e
                   THEN [agent |-> "currency", conf |-> (1000 * c) \div (c + e)]
                   ELSE [agent |-> "element", conf |-> (1000 * e) \div (c + e)]
           ELSE [agent |-> "element", conf |-> 500]

\* What the model call does: it answers currency or element, or it fails
\* (the LLM server is unreachable, the call raises).
LLMOutcomes == {"currency", "element", "down"}

\* analyze_request: the answer of the model; when the model call fails, its
\* except clause returns the pick of the keyword scorer.
AnalyzeRequest(q, llm) ==
    IF llm = "down" THEN AnalyzeRequestByKeywords(q).agent ELSE llm

\* A mutant of Combine: on disagreement the model is trusted up to and
\* including the threshold.
CombineInclusive(kw, llmResult) ==
    IF kw.agent # llmResult
       THEN IF kw.conf <= LowConfidence
               THEN [agent |-> llmResult, conf |-> LLMConfidence, method |-> "llm"]
               ELSE [agent |-> kw.agent, conf |-> kw.conf, method |-> "keyword_high"]
       ELSE [agent |-> kw.agent,
             conf |-> IF kw.conf > AgreedConfidence THEN kw.conf ELSE AgreedConfidence,
             method |-> "agreed"]

\* The combiner of SmartRequestHandler.execute, applied to the scorer's result
\* and the value analyze_request returned.
Combine(kw, llmResult) ==
    IF kw.agent # llmResult
       THEN IF kw.conf < LowConfidence
               THEN [agent |-> llmResult, conf |-> LLMConfidence, method |-> "llm"]
               ELSE [agent |-> kw.agent, conf |-> kw.conf, method |-> "keyword_high"]
       ELSE [agent |-> kw.agent,
             conf |-> IF kw.conf > AgreedConfidence THEN kw.conf ELSE AgreedConfidence,
             method |-> "agreed"]

\* The except clause of execute: the scorer's result, reported as the keyword
\* method after a failed model analysis.
KeywordFallback(kw) == [agent |-> kw.agent, conf |-> kw.conf, method |-> "keyword_llm_failed"]

\* In __main__.py analyze_request is wrapped in lru_cache: a second call with
\* the same query gets the coroutine of the first, and awaiting it again
\* raises.
AwaitRaises(q) == selModule = "main" /\ q.text \in selAwaited

\* SmartRequestHandler.execute: the decision, the executor it selects, and
\* the delegation to that executor.
SmartExecute(q, llm) ==
    /\ selCalls < MaxCalls
    /\ selCalls' = selCalls + 1
    /\ AwaitRaises(q) => llm = "down"
    /\ LET kw == AnalyzeRequestByKeywords(q)
           d == IF AwaitRaises(q) THEN KeywordFallback(kw)
                ELSE Combine(kw, AnalyzeRequest(q, llm))
       IN  /\ selCurrent' = d.agent
           /\ selLast' = [op |-> "execute", query |-> q.text,
                          llm |-> IF AwaitRaises(q) THEN "raised" ELSE llm,
                          agent |-> d.agent, conf |-> d.conf, method |-> d.method,
                          ran |-> d.agent]
    /\ selAwaited' = IF selModule = "main" THEN selAwaited \cup {q.text} ELSE selAwaited
    /\ UNCHANGED selModule

\* The executor SmartRequestHandler.__init__ hands to DefaultRequestHandler as
\* agent_executor: current_executor at construction, the element executor.
AgentExecutor == "element"

\* A message/send or message/stream request to the server main() builds in
\* auto mode: the inherited request methods run agent_executor; nothing calls
\* the execute method of the handler.
OnMessageSend(q) ==
    /\ selCalls < MaxCalls
    /\ selCalls' = selCalls + 1
    /\ selLast' = [op |-> "request", query |-> q.text, llm |-> None,
                   agent |-> None, conf |-> 0, method |-> None,
                   ran |-> AgentExecutor]
    /\ UNCHANGED <<selModule, selCurrent, selAwaited>>

NoCall ==
    [op |-> None, query |-> None, llm |-> None, agent |-> None, conf |-> 0,
     method |-> None, ran |-> None]

SelIdle ==
    /\ selModule = "main"
    /\ selCurrent = "element"
    /\ selAwaited = {}
    /\ selLast = NoCall
    /\ selCalls = 0

(***************************************************************************)
(* The 0.2 server's QueryCache (src/0.2/__main__.py).  The module-level    *)
(* query_cache is read and written by analyze_request_by_keywords and by   *)
(* analyze_request, and read by the admin interface.  The cache is the     *)
(* dict in insertion order; qcUse is not program state: it lists the       *)
(* cached keys from the least to the most recently used, a store and a     *)
(* lookup hit both counting as a use.                                      *)
(***************************************************************************)
MaxSize == 2

TTL == 1

MaxTime == 3

\* _normalize_query on the query texts: lower case, single blanks.
NormalizeQuery(text) ==
    CASE text = "convert 100 USD to EUR" -> "convert 100 usd to eur"
      [] text = "What is the atomic number of Hydrogen?" -> "what is the atomic number of hydrogen?"
      [] OTHER -> text

\* The queries looked up: the currency agent's, the element agent's, a tie
\* of positive scores and a query without keywords.
CacheQueries ==
    {q \in Queries : q.text \in {"carbon price in dollar",
                                  "What is the atomic number of Hydrogen?",
                                  "metal market", "hello"}}

CacheKeys == {NormalizeQuery(q.text) : q \in CacheQueries}

KeyIndex(cache, k) ==
    IF \E i \in 1..Len(cache) : cache[i].key = k
       THEN CHOOSE i \in 1..Len(cache) : cache[i].key = k
       ELSE 0

RemoveAt(s, i) == SubSeq(s, 1, i - 1) \o SubSeq(s, i + 1, Len(s))

WithoutKey(use, k) == SelectSeq(use, LAMBDA x : x # k)

Touch(use, k) == Append(WithoutKey(use, k), k)

NoEntry == [key |-> None, kw |-> FALSE, llm |-> None, ts |-> 0]

NeverExpired(entry, now) == FALSE

\* The negation of get()'s test current_time - entry["timestamp"] <= self.ttl.
Expired(entry, now) == now - entry.ts > TTL

\* QueryCache.get: the entry when it is present and not older than the ttl;
\* an expired entry is deleted.  The timestamp of a returned entry is kept.
Get(c, query, now) ==
    LET k == NormalizeQuery(query)
        i == KeyIndex(c.cache, k)
    IN  IF i = 0
           THEN [cache |-> c.cache, use |-> c.use, found |-> FALSE, hit |-> FALSE,
                 age |-> 0, entry |-> NoEntry]
           ELSE IF ~Expired(c.cache[i], now)
                   THEN [cache |-> c.cache, use |-> Touch(c.use, k), found |-> TRUE,
                         hit |-> TRUE, age |-> now - c.cache[i].ts, entry |-> c.cache[i]]
                   ELSE [cache |-> RemoveAt(c.cache, i), use |-> WithoutKey(c.use, k),
                         found |-> TRUE, hit |-> FALSE, age |-> now - c.cache[i].ts,
                         entry |-> NoEntry]

CacheOverFull(cache) == Len(cache) > MaxSize

\* set()'s test len(self.cache) >= self.max_size.
CacheFull(cache) == Len(cache) >= MaxSize

\* The last key of the largest timestamp.
NewestKey(cache) ==
    LET i == CHOOSE i \in 1..Len(cache) :
                 /\ \A j \in 1..Len(cache) : cache[j].ts <= cache[i].ts
                 /\ \A j \in (i + 1)..Len(cache) : cache[j].ts < cache[i].ts
    IN  cache[i].key

\* min(self.cache.keys(), key=timestamp): the first key, in insertion order,
\* of the smallest timestamp.
OldestKey(cache) ==
    LET i == CHOOSE i \in 1..Len(cache) :
                 /\ \A j \in 1..Len(cache) : cache[j].ts >= cache[i].ts
                 /\ \A j \in 1..(i - 1) : cache[j].ts > cache[i].ts
    IN  cache[i].key

\* QueryCache.set: a full cache first loses its oldest entry, whichever key
\* is stored; then the entry of the key is replaced as a whole.
Set(c, query, kw, llm, now) ==
    LET k == NormalizeQuery(query)
        full == CacheFull(c.cache) /\ c.cache # <<>>
        old == IF full THEN OldestKey(c.cache) ELSE None
        c1 == IF full THEN RemoveAt(c.cache, KeyIndex(c.cache, old)) ELSE c.cache
        u1 == IF full THEN WithoutKey(c.use, old) ELSE c.use
        i == KeyIndex(c1, k)
        e == [key |-> k, kw |-> kw, llm |-> llm, ts |-> now]
    IN  [cache |-> IF i = 0 THEN Append(c1, e) ELSE [c1 EXCEPT ![i] = e],
         use |-> Touch(u1, k),
         evicted |-> old,
         lru |-> IF full THEN Head(c.use) ELSE None,
         fresh |-> KeyIndex(c.cache, k) = 0]

\* analyze_request_by_keywords around the scoring: the cached verdict when
\* the entry holds keyword_result and confidence, else the scores, stored.
KeywordsThroughCache(c, q, now) ==
    LET g == Get(c, q.text, now)
        r == AnalyzeRequestByKeywords(q)
        s == Set([cache |-> g.cache, use |-> g.use], q.text, TRUE, None, now)
    IN  IF g.hit /\ g.entry.kw
           THEN [cache |-> g.cache, use |-> g.use, found |-> g.found, hit |-> g.hit,
                 age |-> g.age, evicted |-> None, lru |-> None, fresh |-> FALSE,
                 agent |-> r.agent, conf |-> r.conf]
           ELSE [cache |-> s.cache, use |-> s.use, found |-> g.found, hit |-> g.hit,
                 age |-> g.age, evicted |-> s.evicted, lru |-> s.lru, fresh |-> s.fresh,
                 agent |-> r.agent, conf |-> r.conf]

\* The body of analyze_request: the cached llm_result when the entry holds
\* one; else the model's answer, stored alone; when the model fails, the
\* keyword verdict, stored as both verdicts.
AnalyzeThroughCache(c, q, llm, now) ==
    LET g == Get(c, q.text, now)
        s == Set([cache |-> g.cache, use |-> g.use], q.text, FALSE, llm, now)
        kw == KeywordsThroughCache([cache |-> g.cache, use |-> g.use], q, now)
        s2 == Set([cache |-> kw.cache, use |-> kw.use], q.text, TRUE, kw.agent, now)
    IN  IF g.hit /\ g.entry.llm # None
           THEN [cache |-> g.cache, use |-> g.use, found |-> g.found, hit |-> g.hit,
                 age |-> g.age, evicted |-> None, lru |-> None, fresh |-> FALSE,
                 agent |-> g.entry.llm, conf |-> 0]
           ELSE IF llm # "down"
                   THEN [cache |-> s.cache, use |-> s.use, found |-> g.found, hit |-> g.hit,
                         age |-> g.age, evicted |-> s.evicted, lru |-> s.lru,
                         fresh |-> s.fresh, agent |-> llm, conf |-> 0]
                   ELSE [cache |-> s2.cache, use |-> s2.use, found |-> g.found,
                         hit |-> g.hit, age |-> g.age,
                         evicted |-> IF kw.evicted # None THEN kw.evicted ELSE s2.evicted,
                         lru |-> IF kw.evicted # None THEN kw.lru ELSE s2.lru,
                         fresh |-> IF kw.evicted # None THEN kw.fresh ELSE s2.fresh,
                         agent |-> kw.agent, conf |-> kw.conf]

NoLookup ==
    [op |-> None, query |-> None, found |-> FALSE, hit |-> FALSE, age |-> 0,
     evicted |-> None, lru |-> None, fresh |-> FALSE, agent |-> None, conf |-> 0]

LookupRecord(op, query, r) ==
    [op |-> op, query |-> query, found |-> r.found, hit |-> r.hit, age |-> r.age,
     evicted |-> r.evicted, lru |-> r.lru, fresh |-> r.fresh, agent |-> r.agent,
     conf |-> r.conf]

\* time.time() advances.
CacheTick ==
    /\ qcClock < MaxTime
    /\ qcClock' = qcClock + 1
    /\ UNCHANGED <<qcCache, qcUse, qcLast>>

\* The admin interface looks a query up (a2a_admin.py).
AdminGet(q) ==
    LET g == Get([cache |-> qcCache, use |-> qcUse], q.text, qcClock)
    IN  /\ qcCache' = g.cache
        /\ qcUse' = g.use
        /\ qcLast' = [NoLookup EXCEPT !.op = "get", !.query = q.text, !.found = g.found,
                                      !.hit = g.hit, !.age = g.age]
        /\ UNCHANGED qcClock

\* One call of analyze_request_by_keywords.
ScorerLookup(q) ==
    LET r == KeywordsThroughCache([cache |-> qcCache, use |-> qcUse], q, qcClock)
    IN  /\ qcCache' = r.cache
        /\ qcUse' = r.use
        /\ qcLast' = LookupRecord("scorer", q.text, r)
        /\ UNCHANGED qcClock

\* One run of the body of analyze_request.
LLMLookup(q, llm) ==
    LET r == AnalyzeThroughCache([cache |-> qcCache, use |-> qcUse], q, llm, qcClock)
    IN  /\ qcCache' = r.cache
        /\ qcUse' = r.use
        /\ qcLast' = LookupRecord("llm", q.text, r)
        /\ UNCHANGED qcClock

CacheIdle ==
    /\ qcCache = <<>>
    /\ qcClock = 0
    /\ qcUse = <<>>
    /\ qcLast = NoLookup

(***************************************************************************)
(* Registration of the remote agents when a host starts: the loop of       *)
(* HostAgent.create over remote_agent_addresses (web UI) and the calls of  *)
(* RemoteAgentRegistry.register_agent made by HostAgentCLI.run (CLI).      *)
(* An address is its index in the configured list; resolving its card      *)
(* fails or yields a card of some name.  The registry maps a card name to  *)
(* the address whose card it holds, 0 when it holds none.                  *)
(***************************************************************************)
MaxAddrs == 3

RegNames == {"Currency Agent", "Element Agent"}

Resolutions == RegNames \cup {"fail"}

NoAgents == [n \in RegNames |-> 0]

AbortOnFailure(pc, n) == n + 1

\* The except clause: the failure is printed and the loop goes on.
AfterFailure(pc, n) == pc + 1

\* One iteration of the loop on an address whose card resolves:
\* cards[card.name] = card (agents[card.name] = card in the CLI).
RegisterAgent ==
    /\ regPc <= Len(regAddrs)
    /\ regAddrs[regPc] # "fail"
    /\ regAgents' = [regAgents EXCEPT ![regAddrs[regPc]] = regPc]
    /\ regPc' = regPc + 1
    /\ UNCHANGED <<regMode, regAddrs>>

\* One iteration on an address whose card resolution raises.
RegisterFails ==
    /\ regPc <= Len(regAddrs)
    /\ regAddrs[regPc] = "fail"
    /\ regPc' = AfterFailure(regPc, Len(regAddrs))
    /\ UNCHANGED <<regMode, regAddrs, regAgents>>

RegIdle ==
    /\ regMode = "webui"
    /\ regAddrs = <<>>
    /\ regPc = 1
    /\ regAgents = NoAgents

(***************************************************************************)
(* task_callback under concurrent messages.  The server runs               *)
(* process_message of every incoming message on a thread of its own        *)
(* (server.py _send_message), and the threads share the ADKHostManager:    *)
(* its task list and the set _processing_tasks, which no lock protects.    *)
(* A call of task_callback is two steps here: the guard up to the marking  *)
(* of the task id, and the body with its finally clause.  The test of the  *)
(* guard and the marking are taken as one step.                            *)
(***************************************************************************)
MaxCbTurns == 3

CbStates == {"working", "input_required", "completed"}

NoEv == [task |-> None, state |-> None]

NoReturn == [task |-> None, state |-> None, ret |-> None]

\* The task id of the next remote event of turn i: the id the message was
\* sent with or the id of the earlier events, else a new id.
CbTaskIds(i) ==
    IF hTurns[i].task # None THEN {hTurns[i].task}
    ELSE {t \in HTasks : ~HasTask(hTasks, t) /\ t \notin cbProc}

CbInProgress == {i \in 1..MaxCbTurns : cbPending[i] # NoEv}

\* The state of the Task returned for an event whose task id is being
\* processed: Task(id, status=TaskStatus(state=TaskState.submitted)).
SkippedReturn(st) == "submitted"

\* task_callback from its entry to the marking of the task id: a task id in
\* _processing_tasks makes the call return at once.
CbEnter(i, t, st) ==
    /\ i <= Len(hTurns)
    /\ hTurns[i].pc = "remote"
    /\ cbPending[i] = NoEv
    /\ t \in CbTaskIds(i)
    /\ hEvents + Cardinality(CbInProgress) < MaxEvents
    /\ IF t \in cbProc
          THEN /\ cbLast' = [cbLast EXCEPT ![i] = [task |-> t, state |-> st,
                                                   ret |-> SkippedReturn(st)]]
               /\ UNCHANGED <<cbProc, cbPending>>
          ELSE /\ cbProc' = cbProc \cup {t}
               /\ cbPending' = [cbPending EXCEPT ![i] = [task |-> t, state |-> st]]
               /\ UNCHANGED cbLast
    /\ UNCHANGED hostVars

\* The body of task_callback for a TaskStatusUpdateEvent and its finally
\* clause: the event is applied, the task id is unmarked, the stored task is
\* returned.
CbApply(i) ==
    /\ i <= Len(hTurns)
    /\ cbPending[i] # NoEv
    /\ TaskCallbackStatus(i, cbPending[i].task, cbPending[i].state, None)
    /\ cbProc' = cbProc \ {cbPending[i].task}
    /\ cbPending' = [cbPending EXCEPT ![i] = NoEv]
    /\ cbLast' = [cbLast EXCEPT ![i] = [task |-> cbPending[i].task,
                                        state |-> cbPending[i].state,
                                        ret |-> cbPending[i].state]]

\* The end of process_message of a turn that is in no callback.
CbTurnEnd(i) ==
    /\ cbPending[i] = NoEv
    /\ TurnEnd(i)
    /\ UNCHANGED cbVars

CbIdle ==
    /\ cbProc = {}
    /\ cbPending = [i \in 1..MaxCbTurns |-> NoEv]
    /\ cbLast = [i \in 1..MaxCbTurns |-> NoReturn]

(***************************************************************************)
(* The parts of the artifact events.  In SpecArt every artifact event      *)
(* carries one part, and the part is labelled with the id of the task the  *)
(* event is addressed to; artSeen counts, per task, the parts its events   *)
(* have carried, artLast holds the fields of the event processed last.     *)
(* Neither is program state.                                               *)
(***************************************************************************)
PartsFor(t) == <<t>>

\* task_callback with a TaskArtifactUpdateEvent addressed to task t.
ArtEvent(i, t, aid, append, last) ==
    /\ TaskCallbackArtifact(i, t, aid, append, last, PartsFor(t))
    /\ artSeen' = [artSeen EXCEPT ![t] = @ + Len(PartsFor(t))]
    /\ artLast' = [aid |-> aid, append |-> append, last |-> last]

NoArtEvent == [aid |-> None, append |-> FALSE, last |-> None]

ArtIdle == artSeen = [t \in HTasks |-> 0] /\ artLast = NoArtEvent

(***************************************************************************)
(* ADKHostManager.process_message and its list of pending message ids.     *)
(* The server runs one call per user message, each on a thread of its own. *)
(* A call adds its message id to _pending_message_ids first, and removes   *)
(* it in the last statements of the function body; no try block encloses   *)
(* the statements in between.                                              *)
(***************************************************************************)
MaxMsgs == 3

PmIds == 1..MaxMsgs

PmPcs == {"new", "session", "run", "done", "no_context", "no_session", "run_raised"}

PmRaised == {"no_context", "no_session", "run_raised"}

\* list.remove(x): the first occurrence of x leaves the list.
ListRemove(list, x) ==
    IF \E i \in 1..Len(list) : list[i] = x
       THEN RemoveAt(list, CHOOSE i \in 1..Len(list) :
                               /\ list[i] = x
                               /\ \A j \in 1..(i - 1) : list[j] # x)
       ELSE list

\* The call starts: the id is appended, then a message without a context id
\* raises ValueError.
PmBegin(m, hasContext) ==
    /\ pmMsgs[m] = "new"
    /\ pmPending' = Append(pmPending, m)
    /\ pmMsgs' = [pmMsgs EXCEPT ![m] = IF hasContext THEN "session" ELSE "no_context"]

\* get_session: a context id without a session raises ValueError.
PmSession(m, found) ==
    /\ pmMsgs[m] = "session"
    /\ pmMsgs' = [pmMsgs EXCEPT ![m] = IF found THEN "run" ELSE "no_session"]
    /\ UNCHANGED pmPending

\* The host run raises (an exception of the runner, of a tool or of the
\* remote agent connection leaves the async for loop and the function).
PmRunRaises(m) ==
    /\ pmMsgs[m] = "run"
    /\ pmMsgs' = [pmMsgs EXCEPT ![m] = "run_raised"]
    /\ UNCHANGED pmPending

\* The host run ends and the function reaches its last statements.
PmEnd(m) ==
    /\ pmMsgs[m] = "run"
    /\ pmPending' = ListRemove(pmPending, m)
    /\ pmMsgs' = [pmMsgs EXCEPT ![m] = "done"]

PmIdle == pmMsgs = [m \in PmIds |-> "new"] /\ pmPending = <<>>

PmEnded(m) == pmMsgs[m] \in PmRaised \cup {"done"}

InPending(m) == \E i \in 1..Len(pmPending) : pmPending[i] = m

(***************************************************************************)
(* Concurrent SmartRequestHandler.execute calls.  The calls are coroutines *)
(* of one event loop: a call runs until it awaits.  execute awaits twice:  *)
(* the model analysis (analyze_request) and the executor it delegates to.  *)
(* Between its assignment to self.current_executor and the expression      *)
(* self.current_executor.execute(...) of its return statement there is no  *)
(* await.                                                                  *)
(***************************************************************************)
MaxConc == 3

ConcIds == 1..MaxConc

NoReq == [pc |-> "new", query |-> None, llm |-> None, before |-> None, ran |-> None]

\* The executor the delegation reads, given current_executor as it was when
\* the call went on after the analysis and as the call has just assigned it:
\* the attribute is read after the assignment.  (Stale: read before it.)
DelegateToStale(before, assigned) == before

DelegateTo(before, assigned) == assigned

\* The decision of one call from its own query and the outcome of its own
\* model analysis.
ConcDecision(q, llm) ==
    IF llm = "raised" THEN KeywordFallback(AnalyzeRequestByKeywords(q))
    ELSE Combine(AnalyzeRequestByKeywords(q), AnalyzeRequest(q, llm))

\* The assignment to current_executor and the delegation, in one step.
ConcFinish(r, q, llm) ==
    LET d == ConcDecision(q, llm)
    IN  /\ selCurrent' = d.agent
        /\ ccReqs' = [ccReqs EXCEPT ![r] =
                         [pc |-> "done", query |-> q.text, llm |-> llm,
                          before |-> selCurrent,
                          ran |-> DelegateTo(selCurrent, d.agent)]]

\* A call starts: the keyword analysis, then the call of analyze_request.
\* Where the cached coroutine of an earlier call comes back (__main__.py),
\* awaiting it raises at once and the call goes on in its except clause;
\* otherwise the call is suspended in the analysis.
ConcStart(r, q) ==
    /\ ccReqs[r].pc = "new"
    /\ IF AwaitRaises(q)
          THEN ConcFinish(r, q, "raised") /\ UNCHANGED selAwaited
          ELSE /\ ccReqs' = [ccReqs EXCEPT ![r] = [@ EXCEPT !.pc = "awaiting", !.query = q.text]]
               /\ selAwaited' = IF selModule = "main" THEN selAwaited \cup {q.text} ELSE selAwaited
               /\ UNCHANGED selCurrent
    /\ UNCHANGED <<selModule, selLast, selCalls>>

\* The analysis of a suspended call returns: combine, assign, delegate.
ConcResume(r, llm) ==
    /\ ccReqs[r].pc = "awaiting"
    /\ ConcFinish(r, QueryOf(ccReqs[r].query), llm)
    /\ UNCHANGED <<selModule, selAwaited, selLast, selCalls>>

CcIdle == ccReqs = [r \in ConcIds |-> NoReq]

(***************************************************************************)
(* The send_message tool of the host agent.  process_message puts the      *)
(* task id of the sanitized user message into the session state before the *)
(* host run; during the run the model may call the tool several times.     *)
(* Each call sends a message with state['task_id'] as taskId and, when a   *)
(* Task comes back, stores that task's id in state['task_id'].             *)
(***************************************************************************)
MaxSends == 3

SendResponses == {"message", "error", "working", "input_required", "completed", "canceled", "failed"}

NoSent == [task |-> None, state |-> None]

\* task_still_open of a task state.
StillOpen(st) == st \in {"submitted", "working", "input_required"}

\* The task the remote agent answers with: the one the message names, else a
\* new one.
AnsweredTasks(taskId) ==
    IF taskId # None THEN {taskId} ELSE {t \in HTasks : snTasks[t] = "absent"}

\* process_message up to the host run: the user message gets the task id of
\* the conversation's last message while that task is open (sanitize_message),
\* joins the conversation, and its task id goes into the session state.
SnRunStart ==
    /\ snPc \in {"idle", "raised"}
    /\ snCalls < MaxSends
    /\ LET t == IF snLast # None /\ StillOpen(snTasks[snLast]) THEN snLast ELSE None
       IN  /\ snTaskId' = t
           /\ snLast' = t
    /\ snPc' = "run"
    /\ UNCHANGED <<snTasks, snSent, snCalls>>

\* One send_message call: the message goes out with state['task_id']; the
\* answer is a Message, nothing (the connection returns None after an error
\* response) or a Task.  A finished task takes no further message: the remote
\* agent answers with an error.
SnSend(resp) ==
    /\ snPc = "run"
    /\ snCalls < MaxSends
    /\ snCalls' = snCalls + 1
    /\ snSent' = [task |-> snTaskId,
                  state |-> IF snTaskId = None THEN None ELSE snTasks[snTaskId]]
    /\ (snTaskId # None /\ ~StillOpen(snTasks[snTaskId])) => resp = "error"
    /\ CASE resp = "message" -> UNCHANGED <<snTaskId, snTasks, snPc>>
         [] resp = "error" -> snPc' = "raised" /\ UNCHANGED <<snTaskId, snTasks>>
         [] OTHER ->
              \E t \in AnsweredTasks(snTaskId) :
                  /\ snTasks' = [snTasks EXCEPT ![t] = resp]
                  /\ snTaskId' = t
                  /\ snPc' = IF resp \in {"canceled", "failed"} THEN "raised" ELSE "run"
    /\ UNCHANGED snLast

\* The host run ends: the response message carries the task id of the
\* session state and becomes the conversation's last message.
SnRunEnd ==
    /\ snPc = "run"
    /\ snPc' = "idle"
    /\ snLast' = snTaskId
    /\ UNCHANGED <<snTaskId, snTasks, snSent, snCalls>>

SnIdle ==
    /\ snPc = "idle"
    /\ snTaskId = None
    /\ snTasks = [t \in HTasks |-> "absent"]
    /\ snSent = NoSent
    /\ snCalls = 0
    /\ snLast = None

\* RemoteAgentConnections.send_message reads a JSONRPCErrorResponse from the
\* stream: it returns None without a call of task_callback, HostAgent's
\* send_message raises on the None, and process_message ends by that
\* exception.  The stored tasks stay as the earlier events left them.
StreamError(i) ==
    /\ hTurns[i].pc = "remote"
    /\ hTurns' = [hTurns EXCEPT ![i].pc = "error"]
    /\ UNCHANGED <<hTasks, hChunks, hTaskMap, hConv, hEvents, hAsm>>

\* The stored task t is open (task_still_open).
TaskOpen(t) ==
    /\ HasTask(hTasks, t)
    /\ StillOpen(hTasks[TaskIndex(hTasks, t)].state)

\* Turn i ended with an error response after events of task t were recorded.
ErrorAfterTask(i, t) ==
    /\ i <= Len(hTurns)
    /\ hTurns[i].pc = "error"
    /\ hTurns[i].task = t
    /\ HasTask(hTasks, t)

(***************************************************************************)
(* The command-line client (hosts/cli/__main__.py).  cli() calls           *)
(* completeTask while continue_loop is true; completeTask prompts for a    *)
(* message, sends it, and when the task asks for input calls itself for    *)
(* the follow-up prompt.  The values returned are Python tuples, and the   *)
(* loop condition takes the truth value of the first element.              *)
(***************************************************************************)
MaxPrompts == 6

\* Python values: a bool, or a tuple of the given length.
PyBool(b) == [kind |-> "bool", val |-> b, len |-> 0]

PyTuple(n) == [kind |-> "tuple", val |-> FALSE, len |-> n]

\* The truth value of a Python value: a tuple is true unless it is empty.
Truthy(x) == IF x.kind = "bool" THEN x.val ELSE x.len > 0

CliInputs == {":q", "quit", "text"}

\* What sending the message gives: an error response on the stream, a Message,
\* a task that ended, a task that asks for input, or no result.
CliResults == {"error", "message", "completed", "input_required", "nothing"}

\* The first element of the tuple the completeTask call at the prompt returns.
PromptReturn(inp, res) ==
    IF inp \in {":q", "quit"} THEN PyBool(FALSE)
    ELSE IF res = "error" THEN PyBool(FALSE)
    ELSE PyBool(TRUE)

RECURSIVE ThroughCallers(_, _)
\* The first element of what the outermost completeTask returns when the call
\* d levels below it returned a tuple starting with x: each caller in between
\* returns (await completeTask(...), contextId, taskId).
ThroughCallers(x, d) == IF d = 0 THEN x ELSE ThroughCallers(PyTuple(3), d - 1)

NoPrompt == [depth |-> 0, input |-> None, result |-> None, cont |-> PyBool(TRUE)]

\* One prompt is answered.  A task asking for input leads to the follow-up
\* prompt of a nested call; in every other case the nested calls return and
\* cli() assigns continue_loop.
CliPrompt(inp, res) ==
    /\ cliRunning
    /\ cliPrompts < MaxPrompts
    /\ cliPrompts' = cliPrompts + 1
    /\ IF inp = "text" /\ res = "input_required"
          THEN /\ cliDepth' = cliDepth + 1
               /\ cliRunning' = TRUE
               /\ cliLast' = [depth |-> cliDepth, input |-> inp, result |-> res,
                              cont |-> PyBool(TRUE)]
          ELSE LET c == ThroughCallers(PromptReturn(inp, res), cliDepth)
               IN  /\ cliDepth' = 0
                   /\ cliRunning' = Truthy(c)
                   /\ cliLast' = [depth |-> cliDepth, input |-> inp,
                                  result |-> IF inp = "text" THEN res ELSE None,
                                  cont |-> c]

CliIdle == cliRunning = TRUE /\ cliDepth = 0 /\ cliLast = NoPrompt /\ cliPrompts = 0

(***************************************************************************)
(* The remote-agent subprocesses of the host CLI (host_agent_cli.py).      *)
(* start_remote_agents starts the agents of REMOTE_AGENTS one after the    *)
(* other and keeps in agent_processes those whose start() returned True;   *)
(* cleanup stops the processes in agent_processes.                         *)
(***************************************************************************)
RemoteAgents == <<"langgraph", "ag2", "google_adk", "semantickernel", "llama_index_file_chat">>

AgentTypes == {RemoteAgents[i] : i \in 1..Len(RemoteAgents)}

\* RemoteAgentProcess.start: Popen raises and there is no process; or the
\* process runs and the agent card is served within the 30 attempts; or it
\* runs and the card is not served in time; or it has ended by itself before
\* the attempts are over.
StartOutcomes == {"no_process", "ready", "not_ready", "exited"}

\* What start() returns.
StartReturns(outcome) == outcome = "ready"

\* RemoteAgentProcess.stop on a process: terminate, wait, kill after the
\* timeout.
Stop(proc) == IF proc = "alive" THEN "stopped" ELSE proc

\* One turn of the loop of start_remote_agents.
StartRemoteAgent(outcome) ==
    /\ ~prCleaned
    /\ prPc <= Len(RemoteAgents)
    /\ LET a == RemoteAgents[prPc]
       IN  /\ prProcs' = [prProcs EXCEPT ![a] =
                             CASE outcome = "no_process" -> "none"
                               [] outcome = "exited" -> "exited"
                               [] OTHER -> "alive"]
           /\ prTracked' = IF StartReturns(outcome) THEN prTracked \cup {a} ELSE prTracked
    /\ prPc' = prPc + 1
    /\ UNCHANGED prCleaned

\* A running agent process ends by itself.
ProcessExits(a) ==
    /\ ~prCleaned
    /\ prProcs[a] = "alive"
    /\ prProcs' = [prProcs EXCEPT ![a] = "exited"]
    /\ UNCHANGED <<prPc, prTracked, prCleaned>>

\* HostAgentCLI.cleanup, called at the end of main and by the signal handler.
Cleanup ==
    /\ ~prCleaned
    /\ prProcs' = [a \in AgentTypes |-> IF a \in prTracked THEN Stop(prProcs[a]) ELSE prProcs[a]]
    /\ prCleaned' = TRUE
    /\ UNCHANGED <<prPc, prTracked>>

PrIdle ==
    /\ prPc = 1
    /\ prProcs = [a \in AgentTypes |-> "none"]
    /\ prTracked = {}
    /\ prCleaned = FALSE

(***************************************************************************)
(* LlamaIndexAgentExecutor.execute and its ctx_states, the saved workflow  *)
(* context per context id.  A saved context is named by the number of the  *)
(* execution that saved it, 0 when the id has none.                        *)
(***************************************************************************)
MaxRuns == 4

FcContexts == {"c1", "c2"}

\* How an execution goes: the request fails validation; a message part is
\* neither text nor a file with data; the workflow ends with its chat
\* response; something raises inside the try block; the workflow ends with
\* another result and the task is set to failed.
FcOutcomes == {"invalid_params", "bad_part", "ok", "raises", "unexpected"}

FcUnsuccessful == FcOutcomes \ {"ok"}

\* The outcomes decided before the try block is entered.
BeforeTry(outcome) == outcome \in {"invalid_params", "bad_part"}

NoRun == [run |-> 0, outcome |-> None, resumed |-> FALSE]

\* ctx_states[context_id] after the execution numbered run.
SavedAfter(saved, outcome, run) ==
    CASE outcome = "ok" -> run
      [] outcome = "raises" -> 0
      [] OTHER -> saved

\* One execute call for context id c.
FcExecute(c, outcome) ==
    /\ fcRuns < MaxRuns
    /\ fcRuns' = fcRuns + 1
    /\ fcSaved' = [fcSaved EXCEPT ![c] = SavedAfter(@, outcome, fcRuns + 1)]
    /\ fcLast' = [fcLast EXCEPT ![c] =
                     [run |-> fcRuns + 1, outcome |-> outcome,
                      resumed |-> ~BeforeTry(outcome) /\ fcSaved[c] # 0]]

FcIdle ==
    /\ fcSaved = [c \in FcContexts |-> 0]
    /\ fcLast = [c \in FcContexts |-> NoRun]
    /\ fcRuns = 0

LateIdle == PmIdle /\ CcIdle /\ SnIdle /\ CliIdle /\ PrIdle /\ FcIdle

AuxIdle == CacheIdle /\ RegIdle /\ CbIdle /\ ArtIdle /\ LateIdle

InitHost == HostIdle /\ TMIdle /\ ExecIdle /\ EvIdle /\ SelIdle /\ AuxIdle

NextHost ==
    \/ SendMessage /\ UNCHANGED <<execVars, tmVars, evVars, selVars, auxVars, lateVars>>
    \/ \E i \in 1..Len(hTurns) : HostSend(i) /\ UNCHANGED <<execVars, tmVars, evVars, selVars, auxVars, lateVars>>
    \/ \E i \in 1..Len(hTurns), t \in HTasks, st \in HStatusStates, m \in {None, "x1"} :
          TaskCallbackStatus(i, t, st, m) /\ UNCHANGED <<execVars, tmVars, evVars, selVars, auxVars, lateVars>>
    \/ \E i \in 1..Len(hTurns), t \in HTasks, aid \in HArtIds, append \in BOOLEAN,
          last \in LastChunkValues, parts \in HParts :
          TaskCallbackArtifact(i, t, aid, append, last, parts) /\ UNCHANGED <<execVars, tmVars, evVars, selVars, auxVars, lateVars>>
    \/ \E i \in 1..Len(hTurns), t \in HTasks, st \in {"submitted", "completed"} :
          TaskCallbackTask(i, t, st) /\ UNCHANGED <<execVars, tmVars, evVars, selVars, auxVars, lateVars>>
    \/ \E i \in 1..Len(hTurns) : TurnEnd(i) /\ UNCHANGED <<execVars, tmVars, evVars, selVars, auxVars, lateVars>>

SpecHost == InitHost /\ [][NextHost]_vars

InitTM == TMIdle /\ ExecIdle /\ HostIdle /\ EvIdle /\ SelIdle /\ AuxIdle

NextTM ==
    \/ \E req \in TMRequests, r \in AgentOutcomes, del \in Deliveries :
          OnSendTask(req, r, del) /\ UNCHANGED <<execVars, hostVars, evVars, selVars, auxVars, lateVars>>
    \/ \E req \in TMRequests, n \in 0..MaxWork :
          OnSendTaskSubscribe(req, n) /\ UNCHANGED <<execVars, hostVars, evVars, selVars, auxVars, lateVars>>
    \/ \E i \in 1..Len(tmSubs), del \in Deliveries :
          RunStreamingStep(i, del) /\ UNCHANGED <<execVars, hostVars, evVars, selVars, auxVars, lateVars>>

SpecTM == InitTM /\ [][NextTM]_vars

InitExec ==
    /\ exKind \in {"ag2", "sk", "adk", "lg"}
    /\ exPc = "start"
    /\ exCurTask \in {None, "input_required"}
    /\ exHasMsg \in BOOLEAN
    /\ exItems \in SeqsUpTo(ItemsOf(exKind), MaxItems)
    /\ exRaises \in BOOLEAN
    /\ exQueue = <<>>
    /\ exCancel = None
    /\ TMIdle
    /\ HostIdle
    /\ EvIdle
    /\ SelIdle
    /\ AuxIdle

NextExec == ExecStart \/ ExecStep \/ ExecEnd \/ ExecCancel

SpecExec == InitExec /\ [][NextExec]_vars

InitEv == HostIdle /\ TMIdle /\ ExecIdle /\ EvIdle /\ SelIdle /\ AuxIdle

NextEv ==
    \/ SendMessage /\ UNCHANGED <<execVars, tmVars, evVars, selVars, auxVars, lateVars>>
    \/ \E i \in 1..Len(hTurns) : HostSend(i) /\ UNCHANGED <<execVars, tmVars, evVars, selVars, auxVars, lateVars>>
    \/ \E i \in 1..Len(hTurns), shape \in EvShapes, t \in HTasks :
          EvEmit(i, shape, t) /\ UNCHANGED <<execVars, tmVars, selVars, auxVars, lateVars>>
    \/ \E i \in 1..Len(hTurns), ts \in 0..MaxClock :
          EvDeliver(i, ts) /\ UNCHANGED <<execVars, tmVars, selVars, auxVars, lateVars>>
    \/ \E i \in 1..Len(hTurns) : EvTurnEnd(i) /\ UNCHANGED <<execVars, tmVars, selVars, auxVars, lateVars>>

SpecEv == InitEv /\ [][NextEv]_vars

InitSel ==
    /\ selModule \in {"main", "app"}
    /\ selCurrent = "element"
    /\ selAwaited = {}
    /\ selLast = NoCall
    /\ selCalls = 0
    /\ HostIdle /\ TMIdle /\ ExecIdle /\ EvIdle /\ AuxIdle

NextSel ==
    \/ \E q \in Queries, llm \in LLMOutcomes :
          SmartExecute(q, llm) /\ UNCHANGED <<execVars, tmVars, hostVars, evVars, auxVars, lateVars>>
    \/ \E q \in Queries : OnMessageSend(q) /\ UNCHANGED <<execVars, tmVars, hostVars, evVars, auxVars, lateVars>>

SpecSel == InitSel /\ [][NextSel]_vars

InitCache == HostIdle /\ TMIdle /\ ExecIdle /\ EvIdle /\ SelIdle /\ AuxIdle

NextCache ==
    \/ CacheTick /\ UNCHANGED <<execVars, tmVars, hostVars, evVars, selVars, regVars, cbVars, artVars, lateVars>>
    \/ \E q \in CacheQueries :
          AdminGet(q) /\ UNCHANGED <<execVars, tmVars, hostVars, evVars, selVars, regVars, cbVars, artVars, lateVars>>
    \/ \E q \in CacheQueries :
          ScorerLookup(q) /\ UNCHANGED <<execVars, tmVars, hostVars, evVars, selVars, regVars, cbVars, artVars, lateVars>>
    \/ \E q \in CacheQueries, llm \in LLMOutcomes :
          LLMLookup(q, llm) /\ UNCHANGED <<execVars, tmVars, hostVars, evVars, selVars, regVars, cbVars, artVars, lateVars>>

SpecCache == InitCache /\ [][NextCache]_vars

InitReg ==
    /\ regMode \in {"webui", "cli"}
    /\ regAddrs \in SeqsUpTo(Resolutions, MaxAddrs)
    /\ regPc = 1
    /\ regAgents = NoAgents
    /\ HostIdle /\ TMIdle /\ ExecIdle /\ EvIdle /\ SelIdle
    /\ CacheIdle /\ CbIdle /\ ArtIdle /\ LateIdle

NextReg ==
    \/ RegisterAgent /\ UNCHANGED <<execVars, tmVars, hostVars, evVars, selVars, cacheVars, cbVars, artVars, lateVars>>
    \/ RegisterFails /\ UNCHANGED <<execVars, tmVars, hostVars, evVars, selVars, cacheVars, cbVars, artVars, lateVars>>

SpecReg == InitReg /\ [][NextReg]_vars

InitCb == HostIdle /\ TMIdle /\ ExecIdle /\ EvIdle /\ SelIdle /\ AuxIdle

NextCb ==
    \/ SendMessageUpTo(MaxCbTurns) /\ UNCHANGED <<execVars, tmVars, evVars, selVars, auxVars, lateVars>>
    \/ \E i \in 1..Len(hTurns) : HostSend(i) /\ UNCHANGED <<execVars, tmVars, evVars, selVars, auxVars, lateVars>>
    \/ \E i \in 1..Len(hTurns), t \in HTasks, st \in CbStates :
          CbEnter(i, t, st) /\ UNCHANGED <<execVars, tmVars, evVars, selVars, cacheVars, regVars, artVars, lateVars>>
    \/ \E i \in 1..Len(hTurns) :
          CbApply(i) /\ UNCHANGED <<execVars, tmVars, evVars, selVars, cacheVars, regVars, artVars, lateVars>>
    \/ \E i \in 1..Len(hTurns) :
          CbTurnEnd(i) /\ UNCHANGED <<execVars, tmVars, evVars, selVars, cacheVars, regVars, artVars, lateVars>>

SpecCb == InitCb /\ [][NextCb]_vars

InitArt == HostIdle /\ TMIdle /\ ExecIdle /\ EvIdle /\ SelIdle /\ AuxIdle

NextArt ==
    \/ SendMessage /\ UNCHANGED <<execVars, tmVars, evVars, selVars, auxVars, lateVars>>
    \/ \E i \in 1..Len(hTurns) : HostSend(i) /\ UNCHANGED <<execVars, tmVars, evVars, selVars, auxVars, lateVars>>
    \/ \E i \in 1..Len(hTurns), t \in HTasks, aid \in HArtIds, append \in BOOLEAN,
          last \in LastChunkValues :
          ArtEvent(i, t, aid, append, last) /\ UNCHANGED <<execVars, tmVars, evVars, selVars, cacheVars, regVars, cbVars, lateVars>>
    \/ \E i \in 1..Len(hTurns) : TurnEnd(i) /\ UNCHANGED <<execVars, tmVars, evVars, selVars, auxVars, lateVars>>

SpecArt == InitArt /\ [][NextArt]_vars

(***************************************************************************)
(* SpecPm: the process_message calls of up to MaxMsgs user messages, run   *)
(* on their threads in any interleaving.                                   *)
(***************************************************************************)
InitPm == HostIdle /\ TMIdle /\ ExecIdle /\ EvIdle /\ SelIdle /\ AuxIdle

NextPm ==
    /\ \/ \E m \in PmIds, hasContext \in BOOLEAN : PmBegin(m, hasContext)
       \/ \E m \in PmIds, found \in BOOLEAN : PmSession(m, found)
       \/ \E m \in PmIds : PmRunRaises(m)
       \/ \E m \in PmIds : PmEnd(m)
    /\ UNCHANGED <<execVars, tmVars, hostVars, evVars, selVars, auxVars,
                   ccVars, snVars, cliVars, prVars, fcVars>>

SpecPm == InitPm /\ [][NextPm]_vars

(***************************************************************************)
(* SpecConc: up to MaxConc execute calls of one SmartRequestHandler, each  *)
(* with a query of its own, suspended and resumed in any order.            *)
(***************************************************************************)
InitConc ==
    /\ selModule \in {"main", "app"}
    /\ selCurrent = "element"
    /\ selAwaited = {}
    /\ selLast = NoCall
    /\ selCalls = 0
    /\ HostIdle /\ TMIdle /\ ExecIdle /\ EvIdle /\ AuxIdle

NextConc ==
    /\ \/ \E r \in ConcIds, q \in CacheQueries : ConcStart(r, q)
       \/ \E r \in ConcIds, llm \in LLMOutcomes : ConcResume(r, llm)
    /\ UNCHANGED <<execVars, tmVars, hostVars, evVars, auxVars,
                   pmVars, snVars, cliVars, prVars, fcVars>>

SpecConc == InitConc /\ [][NextConc]_vars

(***************************************************************************)
(* SpecSend: the host runs of one conversation and their send_message calls *)
(***************************************************************************)
InitSend == HostIdle /\ TMIdle /\ ExecIdle /\ EvIdle /\ SelIdle /\ AuxIdle

NextSend ==
    /\ \/ SnRunStart
       \/ \E resp \in SendResponses : SnSend(resp)
       \/ SnRunEnd
    /\ UNCHANGED <<execVars, tmVars, hostVars, evVars, selVars, auxVars,
                   pmVars, ccVars, cliVars, prVars, fcVars>>

SpecSend == InitSend /\ [][NextSend]_vars

(***************************************************************************)
(* SpecErr: the turns of a conversation whose streams may end with an      *)
(* error response.  SpecErrLive adds that the host takes its own steps:    *)
(* a message handed to the host is sent, a turn whose stream is over ends. *)
(* Nothing obliges the user to send further messages or the remote agent   *)
(* to send further events.                                                 *)
(***************************************************************************)
InitErr == HostIdle /\ TMIdle /\ ExecIdle /\ EvIdle /\ SelIdle /\ AuxIdle

ErrFrame == UNCHANGED <<execVars, tmVars, evVars, selVars, auxVars, lateVars>>

ErrHostSend == \E i \in 1..Len(hTurns) : HostSend(i) /\ ErrFrame

ErrTurnEnd == \E i \in 1..Len(hTurns) : TurnEnd(i) /\ ErrFrame

NextErr ==
    \/ SendMessage /\ ErrFrame
    \/ ErrHostSend
    \/ \E i \in 1..Len(hTurns), t \in HTasks, st \in HStatusStates, m \in {None, "x1"} :
          TaskCallbackStatus(i, t, st, m) /\ ErrFrame
    \/ \E i \in 1..Len(hTurns), t \in HTasks, st \in {"submitted", "completed"} :
          TaskCallbackTask(i, t, st) /\ ErrFrame
    \/ \E i \in 1..Len(hTurns) : StreamError(i) /\ ErrFrame
    \/ ErrTurnEnd

SpecErr == InitErr /\ [][NextErr]_vars

SpecErrLive == SpecErr /\ WF_vars(ErrHostSend) /\ WF_vars(ErrTurnEnd)

(***************************************************************************)
(* SpecCli: up to MaxPrompts prompts of one run of the client.             *)
(***************************************************************************)
InitCli == HostIdle /\ TMIdle /\ ExecIdle /\ EvIdle /\ SelIdle /\ AuxIdle

NextCli ==
    /\ \E inp \in CliInputs, res \in CliResults : CliPrompt(inp, res)
    /\ UNCHANGED <<execVars, tmVars, hostVars, evVars, selVars, auxVars,
                   pmVars, ccVars, snVars, prVars, fcVars>>

SpecCli == InitCli /\ [][NextCli]_vars

(***************************************************************************)
(* SpecProc: one run of the host CLI with automatic start of the agents.   *)
(***************************************************************************)
InitProc == HostIdle /\ TMIdle /\ ExecIdle /\ EvIdle /\ SelIdle /\ AuxIdle

NextProc ==
    /\ \/ \E outcome \in StartOutcomes : StartRemoteAgent(outcome)
       \/ \E a \in AgentTypes : ProcessExits(a)
       \/ Cleanup
    /\ UNCHANGED <<execVars, tmVars, hostVars, evVars, selVars, auxVars,
                   pmVars, ccVars, snVars, cliVars, fcVars>>

SpecProc == InitProc /\ [][NextProc]_vars

(***************************************************************************)
(* SpecChat: up to MaxRuns executions of the file-chat executor.           *)
(***************************************************************************)
InitChat == HostIdle /\ TMIdle /\ ExecIdle /\ EvIdle /\ SelIdle /\ AuxIdle

NextChat ==
    /\ \E c \in FcContexts, outcome \in FcOutcomes : FcExecute(c, outcome)
    /\ UNCHANGED <<execVars, tmVars, hostVars, evVars, selVars, auxVars,
                   pmVars, ccVars, snVars, cliVars, prVars>>

SpecChat == InitChat /\ [][NextChat]_vars

(***************************************************************************)
(* The task's status.state values in the order one execute() call sets     *)
(* them: the state of the existing task, or of the Task event new_task()   *)
(* enqueues, then the state of every status event.                         *)
(***************************************************************************)
IsStateEv(e) == e.kind \in {"task", "status"}

ExStates ==
    LET S == SelectSeq(exQueue, IsStateEv)
    IN  (IF exCurTask # None THEN <<exCurTask>> ELSE <<>>)
        \o [i \in 1..Len(S) |-> S[i].state]

ExCurState == IF ExStates = <<>> THEN None ELSE ExStates[Len(ExStates)]

\* The state machine of the specification, section 4.4.
LegalEdges ==
    {<<"submitted", "working">>,
     <<"working", "completed">>, <<"working", "failed">>, <<"working", "canceled">>,
     <<"working", "input_required">>, <<"input_required", "working">>}

\* A repeated state (two working updates in a row) is no transition.
LegalStep(a, b) == a = b \/ <<a, b>> \in LegalEdges

HasFinal(q) == \E i \in 1..Len(q) : q[i].final

\* C2 (as claimed): the status.state values of a task form a path in the state
\* machine submitted -> working -> {completed, failed, canceled, input_required},
\* input_required -> working -> ..., for any sequence of executor events.
C2_StatePath ==
    \A i \in 1..(Len(ExStates) - 1) : LegalStep(ExStates[i], ExStates[i + 1])

\* C3 (as claimed): the final=true event is the last event on the queue; no
\* event is enqueued after an event with final=true, whatever the agent yields.
C3_FinalIsLast ==
    \A i \in 1..Len(exQueue) : exQueue[i].final => i = Len(exQueue)

\* C4 (as claimed): every execution that ends has emitted at least one
\* terminal (final=true) event.
C4_EndsWithFinal == exPc = "done" => HasFinal(exQueue)

StreamOf(i) == Delivered(tmSubs[i].q)

IsSendStep == tmReqs' # tmReqs /\ tmResp'.method = "send"

Occurrences(h, m) == Cardinality({k \in 1..Len(h) : h[k] = m})

\* C6: on tasks/sendSubscribe the subscriber receives working status events
\* (final=false), then the artifact event, then the completed status event
\* (final=true), and nothing after it: every status event that is not final is
\* a working one, the artifact event comes right before the final completed
\* event, that event ends the stream, and a subscriber whose run has finished
\* has received it.
C6_StreamOrder ==
    \A i \in 1..Len(tmSubs) :
        LET d == StreamOf(i) IN
        /\ \A k \in 1..Len(d) :
              /\ (d[k].kind = "status" /\ ~d[k].final) => d[k] = StatusEv("working", FALSE)
              /\ d[k].kind = "artifact" =>
                    /\ k < Len(d)
                    /\ d[k + 1] = StatusEv("completed", TRUE)
                    /\ \A j \in 1..(k - 1) : d[j] = StatusEv("working", FALSE)
              /\ d[k].final =>
                    /\ k = Len(d)
                    /\ k > 1
                    /\ d[k - 1] = ArtifactEv
                    /\ d[k] = StatusEv("completed", TRUE)
        /\ tmSubs[i].run = "done" =>
              (Len(d) >= 2 /\ d[Len(d)] = StatusEv("completed", TRUE))

\* A run has finished after at least one working event, and its subscriber
\* holds the whole stream.
C6_Witness ==
    \E i \in 1..Len(tmSubs) :
        /\ tmSubs[i].run = "done"
        /\ Len(StreamOf(i)) >= 3
        /\ StreamOf(i)[1] = StatusEv("working", FALSE)

\* C7 (as claimed): when the agent raises while tasks/send handles a task, the
\* task's stored state becomes failed.
C7_RaiseFails ==
    (tmResp.kind = "raised" /\ tmResp.cause = "agent")
        => tmStore[tmResp.task].state = "failed"

\* C8 (as claimed): tasks/send called again with the task id and the message
\* of the previous tasks/send leaves the message once in the task's history,
\* and when the task was terminal the call returns the task unchanged.
C8_SendTwiceOnce ==
    [][(IsSendStep /\ tmResp.kind = "task"
        /\ tmResp'.task = tmResp.task /\ tmResp'.msg = tmResp.msg)
       => (/\ Occurrences(tmStore'[tmResp.task].hist, tmResp.msg) = 1
           /\ tmStore[tmResp.task].state \in TerminalStates =>
                 (tmResp'.kind = "task" /\ tmStore'[tmResp.task] = tmStore[tmResp.task]))]_vars

\* The step is the handling of request req by tasks/send or tasks/sendSubscribe.
RequestStep(req) ==
    /\ tmReqs' # tmReqs
    /\ req.task = tmResp'.task
    /\ req.msg = tmResp'.msg
    /\ \/ \E r \in AgentOutcomes, del \in Deliveries : OnSendTask(req, r, del)
       \/ \E n \in 0..MaxWork : OnSendTaskSubscribe(req, n)

\* C11: a request whose output modes the agent cannot serve is rejected with
\* the incompatible-content-types error at handler entry: no task is created,
\* no history entry appended, no status changed, no push config stored, no
\* subscriber added.
C11_CapabilityErrorFirst ==
    [][\A req \in TMRequests :
          (req.modes = "bad" /\ RequestStep(req)) =>
              /\ tmResp'.kind = "error"
              /\ tmResp'.cause = "incompatible_types"
              /\ tmStore' = tmStore
              /\ tmSubs' = tmSubs
              /\ tmPush' = tmPush]_vars

\* A request for a task the store does not hold was rejected with the
\* incompatible-content-types error, and the store still does not hold it.
C11_Witness ==
    /\ tmResp.kind = "error"
    /\ tmResp.cause = "incompatible_types"
    /\ tmStore[tmResp.task].state = "absent"

\* C12: a push config is stored for a task only by a request whose receiver
\* URL was verified; a request whose URL fails verification is rejected with
\* invalid params and leaves the stored configs as they were.
C12_PushStoredIfVerified ==
    [][/\ tmPush' # tmPush =>
             \E req \in TMRequests :
                 RequestStep(req) /\ req.push = "good" /\ tmPush'[req.task] # tmPush[req.task]
       /\ \A req \in TMRequests :
             (req.push = "bad" /\ req.modes = "ok" /\ RequestStep(req)) =>
                 /\ tmResp'.kind = "error"
                 /\ tmResp'.cause = "invalid_params"
                 /\ tmPush' = tmPush]_vars

\* A tasks/sendSubscribe request got as far as the verification of its push
\* config, was rejected with invalid params, and no config is stored.
C12_Witness ==
    /\ tmResp.method = "subscribe"
    /\ tmResp.cause = "invalid_params"
    /\ tmStore[tmResp.task].state = "submitted"
    /\ tmPush[tmResp.task] = None

C14_OnePost ==
    /\ (tmResp.kind = "task" /\ tmPush[tmResp.task] # None) => tmResp.posts = 1
    /\ \A i \in 1..Len(tmSubs) :
          (tmSubs[i].run = "done" /\ tmPush[tmSubs[i].task] # None) => tmSubs[i].posts = 1

\* C17 (as claimed): a tasks/send or tasks/sendSubscribe request whose message
\* has zero parts is rejected with an error response (invalid params, or the
\* error of an earlier validation).
C17_ZeroPartsRejected ==
    (tmResp.kind # None /\ tmResp.msg.first = "empty") =>
        (tmResp.kind = "error" /\ tmResp.cause \in {"invalid_params", "incompatible_types"})

\* The stored events of task t that carry a state: status updates and Tasks.
StateEventsOf(t) ==
    {n \in 1..Len(evDict) : evDict[n].task = t /\ evDict[n].kind \in {"status", "task"}}

\* C15 (as claimed): within a single task the host's record shows the state
\* of the latest emitted event that has been delivered, and the event list
\* shows the events of the task in the order the remote agent emitted them.
C15_EmissionOrder ==
    /\ \A t \in HTasks :
          StateEventsOf(t) # {} =>
              LET last == CHOOSE n \in StateEventsOf(t) :
                              \A m \in StateEventsOf(t) : evDict[m].seq <= evDict[n].seq
              IN  /\ HasTask(hTasks, t)
                  /\ hTasks[TaskIndex(hTasks, t)].state = evDict[last].state
    /\ \A j, k \in 1..Len(Events) :
          (j < k /\ Events[j].task = Events[k].task) => Events[j].seq < Events[k].seq

\* C16 (as claimed): the history of every task the host holds starts with
\* the user message that originated the task.
C16_HistoryStartsWithUser ==
    \A k \in 1..Len(hTasks) :
        hTasks[k].hist # <<>> => hTasks[k].hist[1] = HUserMsg

\* The agents the selection policy can choose for query q, over the outcomes
\* of the model call.
PolicyPicks(q) ==
    {AnalyzeRequestByKeywords(q).agent}
        \cup {Combine(AnalyzeRequestByKeywords(q), AnalyzeRequest(q, llm)).agent : llm \in LLMOutcomes}

\* C18 (as claimed): the executor that runs a request is one the selection
\* policy chooses for it; the currency query runs on the currency executor.
C18_PolicyExecutorRuns ==
    selLast.op # None => selLast.ran \in PolicyPicks(QueryOf(selLast.query))

\* C19: with a verdict of the model, the decision is the model's pick with
\* confidence 0.8 exactly when scorer and model disagree and the scorer's
\* confidence is below 0.65; on disagreement at 0.65 or above it is the
\* scorer's pick with the scorer's confidence; on agreement it is the common
\* pick with confidence max(keyword confidence, 0.85).
C19_Combiner ==
    (selLast.op = "execute" /\ selLast.llm \in {"currency", "element"}) =>
        LET kw == AnalyzeRequestByKeywords(QueryOf(selLast.query))
            disagree == kw.agent # selLast.llm
        IN  /\ selLast.method = "llm" <=> (disagree /\ kw.conf < 650)
            /\ selLast.method = "llm" => (selLast.agent = selLast.llm /\ selLast.conf = 800)
            /\ (disagree /\ kw.conf >= 650) => (selLast.agent = kw.agent /\ selLast.conf = kw.conf)
            /\ ~disagree =>
                  /\ selLast.agent = kw.agent
                  /\ selLast.conf >= kw.conf /\ selLast.conf >= 850
                  /\ selLast.conf \in {kw.conf, 850}
            /\ selLast.ran = selLast.agent

\* Scorer and model disagreed with the scorer below 0.65 and the model's pick
\* ran.
C19_Witness ==
    /\ selLast.op = "execute"
    /\ selLast.llm \in {"currency", "element"}
    /\ selLast.llm # AnalyzeRequestByKeywords(QueryOf(selLast.query)).agent
    /\ selLast.method = "llm"
    /\ selLast.ran = selLast.llm

\* C20 (as claimed): when the model call fails or raises, the decision is the
\* scorer's pick with the scorer's confidence, reported as the keyword method.
C20_FallbackIsKeyword ==
    (selLast.op = "execute" /\ selLast.llm \in {"down", "raised"}) =>
        LET kw == AnalyzeRequestByKeywords(QueryOf(selLast.query))
        IN  /\ selLast.ran = kw.agent
            /\ selLast.conf = kw.conf
            /\ selLast.method = "keyword_llm_failed"

(***************************************************************************)
(* Properties of the web host.                                             *)
(***************************************************************************)
ArtifactsOf(tasks, t, aid) ==
    IF HasTask(tasks, t)
       THEN SelectSeq(tasks[TaskIndex(tasks, t)].arts, LAMBDA x : x.aid = aid)
       ELSE <<>>

InputRequiredIds ==
    {hTasks[k].id : k \in {j \in 1..Len(hTasks) : hTasks[j].state = "input_required"}}

\* C1 (as claimed): once a task's state is terminal, no later event changes
\* it: its stored state, artifacts and history stay as they were.
C1_TerminalFrozen ==
    [][\A k \in 1..Len(hTasks) :
          hTasks[k].state \in TerminalStates => hTasks'[k] = hTasks[k]]_vars

C9_ContinuesTask ==
    [][(Len(hTurns') > Len(hTurns) /\ InputRequiredIds # {})
          => hTurns'[Len(hTurns')].task \in InputRequiredIds]_vars

(***************************************************************************)
(* Properties of the 0.2 QueryCache and of the keyword scorer behind it.   *)
(***************************************************************************)
ScoresOf(text) ==
    LET q == QueryOf(text)
    IN  [c |-> Score(q.cur, CurrencyKeywords), e |-> Score(q.elm, ElementKeywords)]

C22_CacheBounded == Len(qcCache) <= MaxSize

\* A new key has been stored in a full cache, which is full again.
C22_Witness ==
    /\ Len(qcCache) = MaxSize
    /\ qcLast.evicted # None
    /\ qcLast.fresh

\* C23 (as claimed): the entry a store of a new key evicts from a full cache
\* is the least recently used one, a lookup hit counting as a use.
C23_EvictsLeastRecentlyUsed ==
    (qcLast.evicted # None /\ qcLast.fresh) => qcLast.evicted = qcLast.lru

\* C23 (amended): the entry a store of a new key evicts from a full cache is
\* one of the entries stored longest ago: no entry of the cache has a smaller
\* timestamp, and lookups do not change timestamps.
C23_EvictsOldestStored ==
    [][(qcCache' # qcCache /\ qcLast'.evicted # None /\ qcLast'.fresh) =>
          LET i == KeyIndex(qcCache, qcLast'.evicted)
          IN  /\ i > 0
              /\ \A j \in 1..Len(qcCache) : qcCache[j].ts >= qcCache[i].ts]_vars

\* A store has evicted an entry although another entry was used less
\* recently.
C23_Witness ==
    /\ qcLast.evicted # None
    /\ qcLast.fresh
    /\ qcLast.evicted # qcLast.lru

\* C24: a lookup returns no entry older than the ttl; the lookup of an expired
\* entry is a miss, and the entry is gone after it.
C24_NoStaleHit ==
    /\ qcLast.hit => qcLast.age <= TTL
    /\ (qcLast.found /\ qcLast.age > TTL) =>
           /\ ~qcLast.hit
           /\ qcLast.op = "get" => KeyIndex(qcCache, NormalizeQuery(qcLast.query)) = 0

\* An entry older than the ttl has been looked up.
C24_Witness ==
    /\ qcLast.op = "get"
    /\ qcLast.found
    /\ qcLast.age > TTL
    /\ ~qcLast.hit

\* C25 (as claimed): storing one verdict for a query does not discard the
\* other: a verdict of an unexpired entry is still in the entry after any
\* lookup that leaves the query cached.
C25_VerdictsKept ==
    [][\A k \in CacheKeys :
          LET i == KeyIndex(qcCache, k)
              j == KeyIndex(qcCache', k)
          IN  (i > 0 /\ j > 0 /\ ~Expired(qcCache[i], qcClock)) =>
                  /\ qcCache[i].kw => qcCache'[j].kw
                  /\ qcCache[i].llm # None => qcCache'[j].llm # None]_vars

(***************************************************************************)
(* Properties of the registration of the remote agents.                    *)
(***************************************************************************)
\* The last of the first n addresses whose card resolved with the name, or 0.
LastResolved(name, n) ==
    LET S == {i \in 1..n : regAddrs[i] = name}
    IN  IF S = {} THEN 0 ELSE CHOOSE i \in S : \A j \in S : j <= i

\* C26: once the startup loop has gone over the configured addresses, the
\* registry holds exactly the cards whose resolution succeeded, under their
\* card names; an address whose resolution fails is skipped and the
\* addresses after it are still registered.
C26_RegistryIsResolved ==
    /\ regPc \in 1..(Len(regAddrs) + 1)
    /\ \A name \in RegNames : regAgents[name] = LastResolved(name, regPc - 1)

\* The loop is over; an address failed and a later one is registered.
C26_Witness ==
    /\ regPc = Len(regAddrs) + 1
    /\ \E i, j \in 1..Len(regAddrs) :
          /\ i < j
          /\ regAddrs[i] = "fail"
          /\ regAddrs[j] # "fail"
          /\ regAgents[regAddrs[j]] = j

(***************************************************************************)
(* The task store under a rejected push-notification config.               *)
(***************************************************************************)
\* C27 (as claimed): a tasks/send or tasks/sendSubscribe request answered with
\* invalid params because its push-notification URL failed verification
\* leaves the task store as it was.
C27_RejectedLeavesStore ==
    [][\A req \in TMRequests :
          (/\ RequestStep(req)
           /\ ValidateRequest(req) = None
           /\ req.push # "none"
           /\ ~PushVerified(req)
           /\ tmResp'.cause = "invalid_params") => tmStore' = tmStore]_vars

(***************************************************************************)
(* Properties of task_callback under concurrent messages.                  *)
(***************************************************************************)
StoredState(tasks, t) ==
    IF HasTask(tasks, t) THEN tasks[TaskIndex(tasks, t)].state ELSE None

\* C28 (as claimed): when a call of task_callback with a status event
\* returns, the event has been applied to the stored task and the returned
\* task reflects it, also while another callback for the same task id is in
\* progress.
C28_EveryEventApplied ==
    [][\A i \in 1..MaxCbTurns :
          cbLast'[i] # cbLast[i] =>
              /\ cbLast'[i].ret = cbLast'[i].state
              /\ StoredState(hTasks', cbLast'[i].task) = cbLast'[i].state]_vars

(***************************************************************************)
(* Properties of the artifact parts.                                       *)
(***************************************************************************)
RECURSIVE PartsOfArtifacts(_)
\* The parts of a sequence of artifacts, concatenated.
PartsOfArtifacts(arts) ==
    IF arts = <<>> THEN <<>>
    ELSE Head(arts).parts \o PartsOfArtifacts(Tail(arts))

\* The parts held by the artifacts of task t.
TaskParts(t) ==
    IF HasTask(hTasks, t) THEN PartsOfArtifacts(hTasks[TaskIndex(hTasks, t)].arts)
    ELSE <<>>

CountOf(parts, p) == Len(SelectSeq(parts, LAMBDA x : x = p))

RECURSIVE PendingCount(_, _)
\* The number of parts labelled p in the pending chunks of the artifact ids S.
PendingCount(S, p) ==
    IF S = {} THEN 0
    ELSE LET a == CHOOSE x \in S : TRUE
         IN  CountOf(PartsOfArtifacts(hChunks[a]), p) + PendingCount(S \ {a}, p)

\* C29 (as claimed): no artifact part is lost: every part the artifact events
\* of a task have carried is in the task's artifacts or in the pending chunks,
\* whatever the append and lastChunk flags of the events.
C29_NoPartLost ==
    \A t \in HTasks :
        CountOf(TaskParts(t), t) + PendingCount(HArtIds, t) = artSeen[t]

\* C30 (as claimed): chunks of different tasks are never merged: the artifacts
\* of a task hold only parts of events addressed to that task, also when the
\* events of two tasks share an artifactId and interleave.
C30_NoCrossTaskParts ==
    \A t \in HTasks : \A k \in 1..Len(TaskParts(t)) : TaskParts(t)[k] = t

(***************************************************************************)
(* C31: every message id a process_message call added to the pending list  *)
(* is out of the list once that call has ended, whether it returned or     *)
(* raised (no context id, no session, a failure during the host run).      *)
(***************************************************************************)
C31_EndedNotPending == \A m \in PmIds : PmEnded(m) => ~InPending(m)

C33_AnalyzeRequestReturns == selLast.op = "execute" => selLast.llm # "raised"

(***************************************************************************)
(* C34: a message send_message sends carries a task id only while that     *)
(* task is open; no message carries the id of a completed, canceled or     *)
(* failed task, also not on a second call within one host run.             *)
(***************************************************************************)
C34_NoFinishedTaskSent == snSent.task # None => StillOpen(snSent.state)

(***************************************************************************)
(* C35: when a streaming exchange ends with an error response after the    *)
(* host recorded the task, the stored task does not stay open: it          *)
(* eventually is in a state for which task_still_open is false.            *)
(***************************************************************************)
C35_ErroredTaskCloses ==
    \A i \in 1..MaxTurns, t \in HTasks : ErrorAfterTask(i, t) ~> ~TaskOpen(t)

(***************************************************************************)
(* C36: once an artifact event with lastChunk=true has been processed, the *)
(* temporary accumulator holds no entry for the event's artifactId.        *)
(***************************************************************************)
C36_LastChunkDropsEntry ==
    (artLast.aid # None /\ artLast.last = "true") => hChunks[artLast.aid] = <<>>

\* What holds: the append event with lastChunk=true that closes the chunk
\* sequence of an artifact id with one pending first chunk drops the entry.
ClosedSequenceDropsEntry ==
    \A a \in HArtIds : hAsm[a].phase = "closed" => hChunks[a] = <<>>

(***************************************************************************)
(* C37: entering ':q' or 'quit' at a message prompt of the client ends the *)
(* interaction loop, at the first prompt as well as at the follow-up       *)
(* prompt after a task asked for input.                                    *)
(***************************************************************************)
C37_QuitEndsLoop == cliLast.input \in {":q", "quit"} => ~cliRunning

(***************************************************************************)
(* C38: after HostAgentCLI.cleanup no subprocess that start_remote_agents  *)
(* spawned is still running, including the subprocesses whose startup      *)
(* check never succeeded.                                                  *)
(***************************************************************************)
C38_CleanupStopsAll == prCleaned => \A a \in AgentTypes : prProcs[a] # "alive"

(***************************************************************************)
(* C39: after an execution of the file-chat executor for a context id that *)
(* ended with an exception or with the task failed, no saved context of    *)
(* that id remains, so that the next request starts a new session.         *)
(***************************************************************************)
C39_NoContextAfterFailure ==
    \A c \in FcContexts : fcLast[c].outcome \in FcUnsuccessful => fcSaved[c] = 0

\* What holds: a saved context was saved by a successful execution of its
\* context id, and no later execution of that id raised inside the try block.
SavedBySuccess ==
    \A c \in FcContexts :
        fcSaved[c] # 0 =>
            /\ fcSaved[c] <= fcLast[c].run
            /\ fcSaved[c] = fcLast[c].run => fcLast[c].outcome = "ok"
            /\ fcLast[c].outcome # "raises"

====
